---- MODULE Spec2Model ----
(***************************************************************************)
(* State-machine model of FilePickerOverlay                                *)
(* (dot_pi/agent/extensions/file-picker.ts): the debounced, cancellable    *)
(* search run, the asynchronous preview load with its staleness guard,     *)
(* the selection / preview-scroll state and the teardown on cancel and     *)
(* confirm.                                                                *)
(*                                                                         *)
(* The overlay is single threaded: every action below is one run-to-       *)
(* completion handler of the event loop (a keystroke, a timer callback, or *)
(* the then/catch callback of a promise).  Timer callbacks run when the    *)
(* timer is due: time does not advance past a due timer, and a keystroke   *)
(* is not dispatched ahead of a timer callback that is already due.        *)
(***************************************************************************)
EXTENDS Integers, Sequences, FiniteSets, TLC

\* ------------------------------------------------------------------ bounds
MaxKeys == 2        \* query-changing keystrokes in one behaviour
MaxLoads == 2       \* preview reads started in one behaviour
MaxLines == 24      \* line count of the longest previewed file
TickMs == 40        \* largest step of the clock, in ms
MaxEmit == 203      \* lines the backend emits at most in one run
BlankAt == 2        \* position of the blank line in the backend's output

\* --------------------------------------------------------------- constants
DEBOUNCE_MS == 80
MAX_RESULTS == 200
MAX_FILE_SIZE == 10 * 1024 * 1024

\* null of a path / of the list error (a message is a non-empty word list)
NoPath == <<>>
NoError == <<>>
\* null of previewError
Null == "<null>"

\* Paths are sequences of characters, as the backend prints them.
A == <<"a">>
B == <<"d", "/", "b">>
D == <<"d", "/">>

\* Outputs a backend run can resolve with (lines in backend order).
Listings == { <<>>, <<A, B, D>> }

\* Texts the Input field can hold.
Queries == { "", "r" }

\* Error messages a backend run can reject with (undefined: no message).
Undefined == <<"<undefined>">>
SearchErrors == { <<"spawn", "fd", "ENOENT">>, <<"EPIPE">>, Undefined }

\* Buffers a read can resolve with: length bytes, none of them null or the
\* one at index nulAt (-1: none), decoding to n lines of text.
Buffers == { [ length |-> 1, nulAt |-> 0, n |-> 1 ],
             [ length |-> MaxLines, nulAt |-> -1, n |-> MaxLines ] }

\* Errors a read can reject with.
ReadErrors == { [code |-> "EISDIR", message |-> "EISDIR: illegal operation"],
                [code |-> "ETOOLARGE", message |-> "File too large"],
                [code |-> "ENOENT",
                 message |-> "ENOENT: no such file or directory, stat 'a'"] }

VARIABLES
    \* FilePickerOverlay fields
    query, results, selectedIndex, loading, error,
    debounceTimer, currentSearch,
    previewPath, previewLines, previewLoading, previewError, previewScroll,
    \* environment: backend runs, file reads, runtime timers, done() callback
    searches, reads, timers, closed, doneResult,
    \* history: keystroke count, ms since the last query change, last applied
    \* completions, whether the last handled event called requestRender()
    keyNo, sinceKey, appliedSearch, appliedRead, renderRequested,
    \* the backend run of the current request (runSearch): which tools are on
    \* the PATH, the two child processes, the lines the backend has emitted,
    \* the locals lines and done, whether rl is closed, how the promise settled
    \* (tracked: the request this run belongs to)
    tracked, installed, fd, fzf, emitted, lines, done, rlClosed, outcome,
    \* readFileChecked: the stat results of the preview reads
    stats,
    \* what render(width) returned for the present state (nothing once the
    \* state moved on), and the last selection key handleInput() dispatched
    \* (both followed under SpecView only)
    frame, lastKey,
    \* the input last handed to handleInput(): the key bindings it matches
    \* and the text the Input field would hold had it received it (followed
    \* under SpecKeys only)
    lastInput,
    \* the critique tool's execute(): its arguments, the position it has
    \* reached, the AbortSignal it was given, the sub-agent session with the
    \* calls made on it, the locals disposed and unsubscribe, the events the
    \* session emitted, the onUpdate() calls and what execute() returned
    \* (followed under SpecCritique only)
    params, at, signal, session, disposed, unsubscribe, events, updates,
    returned

overlayVars == << query, results, selectedIndex, loading, error,
                  debounceTimer, currentSearch >>
previewVars == << previewPath, previewLines, previewLoading, previewError,
                  previewScroll >>
envVars == << searches, reads, timers, closed, doneResult >>
histVars == << keyNo, sinceKey, appliedSearch, appliedRead, renderRequested >>
runVars == << tracked, installed, fd, fzf, emitted, lines, done, rlClosed,
             outcome >>
ioVars == << runVars, stats >>
pickerVars == << overlayVars, previewVars, envVars, histVars >>
viewVars == << frame, lastKey, lastInput >>
critVars == << params, at, signal, session, disposed, unsubscribe, events,
              updates, returned >>
vars == << pickerVars, ioVars, viewVars, critVars >>

\* ------------------------------------------------------------- pure helpers

Min(a, b) == IF a < b THEN a ELSE b
Max(a, b) == IF a > b THEN a ELSE b

\* JavaScript %: the sign of the result is the sign of the dividend.
JsRem(a, n) == IF a >= 0 THEN a % n ELSE 0 - ((0 - a) % n)

\* Index (1-based) of the last "/" of a path, 0 when there is none.
LastSlash(p) ==
    LET S == { i \in 1..Len(p) : p[i] = "/" }
    IN IF S = {} THEN 0 ELSE CHOOSE i \in S : \A k \in S : k <= i

basename(p) == SubSeq(p, LastSlash(p) + 1, Len(p))
dirname(p) == IF LastSlash(p) = 0 THEN <<".">>
              ELSE IF LastSlash(p) = 1 THEN <<"/">>
              ELSE SubSeq(p, 1, LastSlash(p) - 1)

parseFile(p) ==
    LET isDir == Len(p) > 0 /\ p[Len(p)] = "/"
        clean == IF isDir THEN SubSeq(p, 1, Len(p) - 1) ELSE p
    IN [ path |-> p,
         name |-> basename(clean) \o (IF isDir THEN <<"/">> ELSE <<>>),
         dir |-> dirname(clean),
         isDirectory |-> isDir ]

parseFiles(paths) == [ i \in 1..Len(paths) |-> parseFile(paths[i]) ]

\* Mutant: the divider column is not taken off the right pane.
computeLayoutNoDivider(width) ==
    LET innerW == width - 2
        leftW == innerW \div 2
        rightW == innerW - leftW
        totalRows == 4 + 18 + 3
    IN [ leftW |-> leftW, rightW |-> rightW, listRows |-> 18,
         totalRows |-> totalRows, previewContentRows |-> totalRows - 2 ]

computeLayout(width) ==
    LET innerW == width - 2
        leftW == innerW \div 2
        rightW == innerW - leftW - 1
        listRows == 18
        headerRows == 4
        footerRows == 3
        totalRows == headerRows + listRows + footerRows
    IN [ leftW |-> leftW, rightW |-> rightW, listRows |-> listRows,
         totalRows |-> totalRows, previewContentRows |-> totalRows - 2 ]

\* The row geometry does not depend on the width (constructor: width 80).
layout == computeLayout(80)

\* previewLines is kept as what it holds, where it was read from and how
\* many lines it has.
EmptyLines == [ kind |-> "empty", src |-> NoPath, n |-> 0 ]
DirLines == [ kind |-> "directory", src |-> NoPath, n |-> 2 ]
BinaryLines(p) == [ kind |-> "binary", src |-> p, n |-> 2 ]
TextLines(p, n) == [ kind |-> "text", src |-> p, n |-> n ]

\* buf[i], for an index i inside the buffer.
byteAt(buf, i) == IF i = buf.nulAt THEN 0 ELSE 97

\* The length of the prefix isBinary() looks at.
SniffLen == 512

\* Mutant: the whole buffer is searched for a null byte.
isBinaryWholeBuffer(buf) ==
    \E i \in 0..(buf.length - 1) : byteAt(buf, i) = 0

isBinary(buf) ==
    \E i \in 0..(Min(buf.length, SniffLen) - 1) : byteAt(buf, i) = 0

\* res[sel] is an item (JavaScript yields undefined outside the array).
HasItem(res, sel) == 0 <= sel /\ sel + 1 <= Len(res)

Includes(msg, word) == \E i \in 1..Len(msg) : msg[i] = word


\* ------------------------------------------------------------------- Init
\* State after the constructor: fields at their initialisers, then search()
\* has issued the initial listing for the empty query.
InitOverlay ==
    /\ query = ""
    /\ results = <<>>
    /\ selectedIndex = 0
    /\ loading = TRUE
    /\ error = NoError
    /\ debounceTimer = 0
    /\ currentSearch = 1
    /\ previewPath = NoPath
    /\ previewLines = EmptyLines
    /\ previewLoading = FALSE
    /\ previewError = Null
    /\ previewScroll = 0
    /\ searches = << [ query |-> "", aborted |-> FALSE, settled |-> FALSE,
                       key |-> 0 ] >>
    /\ reads = <<>>
    /\ timers = {}
    /\ closed = FALSE
    /\ doneResult = NoPath
    /\ keyNo = 0
    /\ sinceKey = 0
    /\ appliedSearch = 0
    /\ appliedRead = 0
    /\ renderRequested = FALSE

\* The overlay after "r" was typed into the empty query and the debounced
\* search() started: the initial listing was aborted and its completion was
\* dropped, the run for "r" is in flight.
TypedStart ==
    /\ query = "r"
    /\ results = <<>>
    /\ selectedIndex = 0
    /\ loading = TRUE
    /\ error = NoError
    /\ debounceTimer = 1
    /\ currentSearch = 2
    /\ previewPath = NoPath
    /\ previewLines = EmptyLines
    /\ previewLoading = FALSE
    /\ previewError = Null
    /\ previewScroll = 0
    /\ searches = << [ query |-> "", aborted |-> TRUE, settled |-> TRUE,
                       key |-> 0 ],
                     [ query |-> "r", aborted |-> FALSE, settled |-> FALSE,
                       key |-> 1 ] >>
    /\ reads = <<>>
    /\ timers = {}
    /\ closed = FALSE
    /\ doneResult = NoPath
    /\ keyNo = 1
    /\ sinceKey = DEBOUNCE_MS
    /\ appliedSearch = 0
    /\ appliedRead = 0
    /\ renderRequested = FALSE

\* The overlay after "r" was typed while the initial listing is in flight,
\* at the moment the debounce timer is due.
TimerDue ==
    /\ query = "r"
    /\ results = <<>>
    /\ selectedIndex = 0
    /\ loading = TRUE
    /\ error = NoError
    /\ debounceTimer = 1
    /\ currentSearch = 1
    /\ previewPath = NoPath
    /\ previewLines = EmptyLines
    /\ previewLoading = FALSE
    /\ previewError = Null
    /\ previewScroll = 0
    /\ searches = << [ query |-> "", aborted |-> FALSE, settled |-> FALSE,
                       key |-> 0 ] >>
    /\ reads = <<>>
    /\ timers = { [ id |-> 1, left |-> 0 ] }
    /\ closed = FALSE
    /\ doneResult = NoPath
    /\ keyNo = 1
    /\ sinceKey = DEBOUNCE_MS
    /\ appliedSearch = 0
    /\ appliedRead = 0
    /\ renderRequested = TRUE

\* The overlay of TypedStart after the "r" was deleted again while the run
\* for "r" is in flight, at the moment the debounce timer is due.
TypedTimerDue ==
    /\ query = ""
    /\ results = <<>>
    /\ selectedIndex = 0
    /\ loading = TRUE
    /\ error = NoError
    /\ debounceTimer = 2
    /\ currentSearch = 2
    /\ previewPath = NoPath
    /\ previewLines = EmptyLines
    /\ previewLoading = FALSE
    /\ previewError = Null
    /\ previewScroll = 0
    /\ searches = << [ query |-> "", aborted |-> TRUE, settled |-> TRUE,
                       key |-> 0 ],
                     [ query |-> "r", aborted |-> FALSE, settled |-> FALSE,
                       key |-> 1 ] >>
    /\ reads = <<>>
    /\ timers = { [ id |-> 2, left |-> 0 ] }
    /\ closed = FALSE
    /\ doneResult = NoPath
    /\ keyNo = 2
    /\ sinceKey = DEBOUNCE_MS
    /\ appliedSearch = 0
    /\ appliedRead = 0
    /\ renderRequested = TRUE

\* Which of the two tools spawn() finds on the PATH.
Installs == [ fd : BOOLEAN, fzf : BOOLEAN ]
AllInstalled == [ fd |-> TRUE, fzf |-> TRUE ]

\* A child process right after spawn(): running, or failed to start (its
\* 'error' event is still to be delivered).
spawn(found) == [ state |-> IF found THEN "running" ELSE "failed",
                  status |-> "none", errorSeen |-> FALSE,
                  pipeError |-> FALSE ]
NoProcess == [ state |-> "none", status |-> "none", errorSeen |-> FALSE,
               pipeError |-> FALSE ]

\* runSearch(q, signal) up to its return, with the tools inst on the PATH:
\* fd is spawned, fzf only for a non-empty query; nothing is collected yet.
InitPipeline(q, inst) ==
    /\ tracked = currentSearch
    /\ installed = inst
    /\ fd = spawn(inst.fd)
    /\ fzf = IF q # "" THEN spawn(inst.fzf) ELSE NoProcess
    /\ emitted = 0
    /\ lines = <<>>
    /\ done = FALSE
    /\ rlClosed = FALSE
    /\ outcome = "pending"
    /\ stats = {}

\* Nothing rendered, no key dispatched.
NoFrame == [ width |-> 0, layout |-> << >>, total |-> 0, selected |-> 0,
             listed |-> FALSE, window |-> [ start |-> 0, end |-> 0 ],
             rows |-> << >>, marked |-> {}, glyphs |-> << >> ]
NoKey == [ delta |-> 0, from |-> 0 ]
NoInput == [ matches |-> {}, value |-> Null ]
InitView == frame = NoFrame /\ lastKey = NoKey /\ lastInput = NoInput

\* The critique tool: no AbortSignal passed, no session created, nothing
\* returned, execute() not called.
NotCalled ==
    /\ params = [ content |-> << >> ]
    /\ at = "idle"
    /\ signal = [ present |-> FALSE, aborted |-> FALSE, listeners |-> 0 ]
    /\ session = [ created |-> FALSE, subscribers |-> 0, calls |-> << >> ]
    /\ disposed = FALSE
    /\ unsubscribe = Null
    /\ events = 0
    /\ updates = 0
    /\ returned = [ isError |-> FALSE, text |-> Null ]

Init == InitOverlay /\ InitPipeline("", AllInstalled) /\ InitView /\ NotCalled

\* ------------------------------------------------------- search lifecycle

\* clearTimeout(h): the runtime drops the pending timer with handle h.
clearTimeout(T, h) == { t \in T : t.id # h }

\* Mutant: the pending timer is not cleared before the new one is set.
scheduleSearchNoClear(T, h) == T \cup { [ id |-> h, left |-> DEBOUNCE_MS ] }

\* scheduleSearch(): the timers of the runtime after the call that creates
\* the timer with handle h.
scheduleSearch(T, h) ==
    (IF debounceTimer # 0 THEN clearTimeout(T, debounceTimer) ELSE T)
        \cup { [ id |-> h, left |-> DEBOUNCE_MS ] }

\* Mutant: the previous controller is not aborted.
abortCurrentSkipped(S, cur) == S

\* this.currentSearch?.abort()
abortCurrent(S, cur) == IF cur = 0 THEN S ELSE [ S EXCEPT ![cur].aborted = TRUE ]

\* Mutant: the run is started for the empty query, not the typed text.
searchUnfiltered(S, cur, q) ==
    Append(abortCurrent(S, cur),
           [ query |-> "", aborted |-> FALSE, settled |-> FALSE,
             key |-> keyNo ])

\* search(): abort the previous controller, create the new one and start the
\* backend run for the current query text.
search(S, cur, q) ==
    Append(abortCurrent(S, cur),
           [ query |-> q, aborted |-> FALSE, settled |-> FALSE,
             key |-> keyNo ])

\* Mutant: the callbacks do not look at the signal.
signalAbortedIgnored(i) == FALSE

\* signal.aborted, as the then/catch callbacks of run i read it.
signalAborted(i) == searches[i].aborted

\* Mutant: cleanup() does not abort the current search.
cleanupSearchesSkipped(S) == S

\* cleanup(): the timers and the backend runs after it.
cleanupTimers(T) == IF debounceTimer # 0 THEN clearTimeout(T, debounceTimer) ELSE T
cleanupSearches(S) == abortCurrent(S, currentSearch)

\* ------------------------------------------------------------ preview load

\* Mutant: the staleness guard is missing.
isStaleNever(p) == FALSE

\* The guard of both completion callbacks of a read of path p.
isStale(p) == previewPath # p

\* Mutant: the early return tests whether any file is previewed, not whether
\* it is the selected one.
loadPreviewNoReload(res, sel) ==
    IF ~HasItem(res, sel) THEN
        [ path |-> NoPath, lines |-> EmptyLines, error |-> Null,
          loading |-> FALSE, scroll |-> 0, read |-> NoPath ]
    ELSE IF res[sel + 1].isDirectory THEN
        [ path |-> res[sel + 1].path, lines |-> DirLines, error |-> Null,
          loading |-> FALSE, scroll |-> 0, read |-> NoPath ]
    ELSE IF previewPath # NoPath THEN
        [ path |-> previewPath, lines |-> previewLines, error |-> previewError,
          loading |-> previewLoading, scroll |-> previewScroll, read |-> NoPath ]
    ELSE
        [ path |-> res[sel + 1].path, lines |-> previewLines, error |-> Null,
          loading |-> TRUE, scroll |-> 0, read |-> res[sel + 1].path ]

\* Mutant: the same-path return comes after the error and the scroll offset
\* were reset.
loadPreviewResetsOnSamePath(res, sel) ==
    IF ~HasItem(res, sel) THEN
        [ path |-> NoPath, lines |-> EmptyLines, error |-> Null,
          loading |-> FALSE, scroll |-> 0, read |-> NoPath ]
    ELSE IF res[sel + 1].isDirectory THEN
        [ path |-> res[sel + 1].path, lines |-> DirLines, error |-> Null,
          loading |-> FALSE, scroll |-> 0, read |-> NoPath ]
    ELSE IF res[sel + 1].path = previewPath THEN
        [ path |-> previewPath, lines |-> previewLines, error |-> Null,
          loading |-> previewLoading, scroll |-> 0, read |-> NoPath ]
    ELSE
        [ path |-> res[sel + 1].path, lines |-> previewLines, error |-> Null,
          loading |-> TRUE, scroll |-> 0, read |-> res[sel + 1].path ]

\* Mutant: the directory branch does not retarget previewPath.
loadPreviewDirKeepsPath(res, sel) ==
    IF ~HasItem(res, sel) THEN
        [ path |-> NoPath, lines |-> EmptyLines, error |-> Null,
          loading |-> FALSE, scroll |-> 0, read |-> NoPath ]
    ELSE IF res[sel + 1].isDirectory THEN
        [ path |-> previewPath, lines |-> DirLines, error |-> Null,
          loading |-> FALSE, scroll |-> 0, read |-> NoPath ]
    ELSE IF res[sel + 1].path = previewPath THEN
        [ path |-> previewPath, lines |-> previewLines, error |-> previewError,
          loading |-> previewLoading, scroll |-> previewScroll, read |-> NoPath ]
    ELSE
        [ path |-> res[sel + 1].path, lines |-> previewLines, error |-> Null,
          loading |-> TRUE, scroll |-> 0, read |-> res[sel + 1].path ]

\* loadPreview() for result list res and index sel (0-based): the preview
\* fields after the call and the path whose read it starts (NoPath: none).
loadPreview(res, sel) ==
    IF ~HasItem(res, sel) THEN
        [ path |-> NoPath, lines |-> EmptyLines, error |-> Null,
          loading |-> FALSE, scroll |-> 0, read |-> NoPath ]
    ELSE IF res[sel + 1].isDirectory THEN
        [ path |-> res[sel + 1].path, lines |-> DirLines, error |-> Null,
          loading |-> FALSE, scroll |-> 0, read |-> NoPath ]
    ELSE IF res[sel + 1].path = previewPath THEN
        [ path |-> previewPath, lines |-> previewLines, error |-> previewError,
          loading |-> previewLoading, scroll |-> previewScroll, read |-> NoPath ]
    ELSE
        [ path |-> res[sel + 1].path, lines |-> previewLines, error |-> Null,
          loading |-> TRUE, scroll |-> 0, read |-> res[sel + 1].path ]

\* The assignments of loadPreview() as one step.
ApplyLoadPreview(res, sel) ==
    LET r == loadPreview(res, sel)
    IN /\ r.read # NoPath => Len(reads) < MaxLoads
       /\ previewPath' = r.path
       /\ previewLines' = r.lines
       /\ previewError' = r.error
       /\ previewLoading' = r.loading
       /\ previewScroll' = r.scroll
       /\ reads' = IF r.read # NoPath
                   THEN Append(reads, [ path |-> r.read, settled |-> FALSE ])
                   ELSE reads

\* -------------------------------------------------------------- navigation

\* Mutant: the result count is not added before taking the remainder.
wrapIndexNoAdd(sel, delta, n) == JsRem(sel + delta, n)

wrapIndex(sel, delta, n) == JsRem(sel + delta + n, n)

clampScroll(scroll, delta, nLines) ==
    LET maxScroll == Max(0, nLines - layout.previewContentRows)
    IN Max(0, Min(scroll + delta, maxScroll))

halfPage == Max(1, layout.previewContentRows \div 2)

\* A keystroke is handled while the overlay is shown, and after the timer
\* callbacks that are already due.
CanHandleInput == ~closed /\ \A t \in timers : t.left > 0


\* ---------------------------------------------------------------- actions

\* handleInput: selectCancel.
KeyCancel ==
    /\ CanHandleInput
    /\ timers' = cleanupTimers(timers)
    /\ searches' = cleanupSearches(searches)
    /\ closed' = TRUE
    /\ doneResult' = NoPath
    /\ renderRequested' = FALSE
    /\ UNCHANGED << overlayVars, previewVars, reads, keyNo, sinceKey,
                    appliedSearch, appliedRead >>

\* Mutant: confirm delivers a path only when the list is at rest.
KeyConfirmOnlyAtRest ==
    /\ CanHandleInput
    /\ timers' = cleanupTimers(timers)
    /\ searches' = cleanupSearches(searches)
    /\ closed' = TRUE
    /\ doneResult' = IF HasItem(results, selectedIndex) /\ ~loading
                        /\ error = NoError
                     THEN results[selectedIndex + 1].path ELSE NoPath
    /\ renderRequested' = FALSE
    /\ UNCHANGED << overlayVars, previewVars, reads, keyNo, sinceKey,
                    appliedSearch, appliedRead >>

\* handleInput: selectConfirm.
KeyConfirm ==
    /\ CanHandleInput
    /\ timers' = cleanupTimers(timers)
    /\ searches' = cleanupSearches(searches)
    /\ closed' = TRUE
    /\ doneResult' = IF HasItem(results, selectedIndex)
                     THEN results[selectedIndex + 1].path ELSE NoPath
    /\ renderRequested' = FALSE
    /\ UNCHANGED << overlayVars, previewVars, reads, keyNo, sinceKey,
                    appliedSearch, appliedRead >>

\* handleInput: selectUp / ctrl+p / ctrl+k (delta -1) and selectDown /
\* ctrl+n / ctrl+j (delta 1): moveSelection(delta), then requestRender().
KeyMove(delta) ==
    /\ CanHandleInput
    /\ IF Len(results) = 0
       THEN UNCHANGED << selectedIndex, previewVars, reads >>
       ELSE /\ selectedIndex' = wrapIndex(selectedIndex, delta, Len(results))
            /\ ApplyLoadPreview(results, selectedIndex')
    /\ renderRequested' = TRUE
    /\ UNCHANGED << query, results, loading, error, debounceTimer, currentSearch,
                    searches, timers, closed, doneResult, keyNo, sinceKey,
                    appliedSearch, appliedRead >>

\* handleInput: ctrl+d / ctrl+u (half page) and ctrl+e / ctrl+y (one line):
\* scrollPreview(delta), then requestRender().
KeyScroll(delta) ==
    /\ CanHandleInput
    /\ previewScroll' = clampScroll(previewScroll, delta, previewLines.n)
    /\ renderRequested' = TRUE
    /\ UNCHANGED << overlayVars, previewPath, previewLines, previewLoading,
                    previewError, envVars, keyNo, sinceKey, appliedSearch,
                    appliedRead >>

\* handleInput: any other input goes to the Input field, which then holds
\* newQuery; a changed text is stored and restarts the debounce timer.
KeyOther(newQuery) ==
    /\ CanHandleInput
    /\ IF newQuery # query
       THEN /\ keyNo < MaxKeys
            /\ query' = newQuery
            /\ timers' = scheduleSearch(timers, keyNo + 1)
            /\ debounceTimer' = keyNo + 1
            /\ keyNo' = keyNo + 1
            /\ sinceKey' = 0
       ELSE UNCHANGED << query, timers, debounceTimer, keyNo, sinceKey >>
    /\ renderRequested' = TRUE
    /\ UNCHANGED << results, selectedIndex, loading, error, currentSearch,
                    previewVars, searches, reads, closed, doneResult,
                    appliedSearch, appliedRead >>

\* The clock advances, at most to the next due time of a pending timer.
Tick ==
    /\ timers # {}
    /\ \A t \in timers : t.left > 0
    /\ LET d == CHOOSE d \in 1..TickMs :
                    /\ \A t \in timers : d <= t.left
                    /\ \/ d = TickMs
                       \/ \E t \in timers : d = t.left
       IN /\ timers' = { [ t EXCEPT !.left = t.left - d ] : t \in timers }
          /\ sinceKey' = sinceKey + d
    /\ UNCHANGED << overlayVars, previewVars, searches, reads, closed,
                    doneResult, keyNo, appliedSearch, appliedRead,
                    renderRequested >>

\* The callback of a due debounce timer: search().
TimerFire(t) ==
    /\ t \in timers
    /\ t.left = 0
    /\ Len(searches) <= MaxKeys
    /\ timers' = timers \ {t}
    /\ searches' = search(searches, currentSearch, query)
    /\ currentSearch' = Len(searches) + 1
    /\ loading' = TRUE
    /\ renderRequested' = FALSE
    /\ UNCHANGED << query, results, selectedIndex, error, debounceTimer,
                    previewVars, reads, closed, doneResult, keyNo, sinceKey,
                    appliedSearch, appliedRead >>

\* Mutant: the then-callback keeps the selection where it was.
SearchResolveKeepsSelection(i, paths) ==
    /\ i \in 1..Len(searches)
    /\ ~searches[i].settled
    /\ searches' = [ searches EXCEPT ![i].settled = TRUE ]
    /\ IF signalAborted(i)
       THEN /\ UNCHANGED << results, selectedIndex, loading, error, previewVars,
                            reads, appliedSearch >>
            /\ renderRequested' = FALSE
       ELSE /\ results' = parseFiles(paths)
            /\ selectedIndex' = selectedIndex
            /\ loading' = FALSE
            /\ error' = NoError
            /\ ApplyLoadPreview(results', selectedIndex')
            /\ appliedSearch' = i
            /\ renderRequested' = TRUE
    /\ UNCHANGED << query, debounceTimer, currentSearch, timers, closed,
                    doneResult, keyNo, sinceKey, appliedRead >>

\* then-callback of backend run i, which resolved with the lines paths.
SearchResolve(i, paths) ==
    /\ i \in 1..Len(searches)
    /\ ~searches[i].settled
    /\ searches' = [ searches EXCEPT ![i].settled = TRUE ]
    /\ IF signalAborted(i)
       THEN /\ UNCHANGED << results, selectedIndex, loading, error, previewVars,
                            reads, appliedSearch >>
            /\ renderRequested' = FALSE
       ELSE /\ results' = parseFiles(paths)
            /\ selectedIndex' = 0
            /\ loading' = FALSE
            /\ error' = NoError
            /\ ApplyLoadPreview(results', selectedIndex')
            /\ appliedSearch' = i
            /\ renderRequested' = TRUE
    /\ UNCHANGED << query, debounceTimer, currentSearch, timers, closed,
                    doneResult, keyNo, sinceKey, appliedRead >>

\* The list-pane message for a rejection with message msg.
searchErrorText(msg) ==
    LET m == IF msg = Undefined THEN <<"unknown">> ELSE msg
    IN IF Includes(m, "ENOENT")
       THEN <<"fd/fzf", "not", "found", "--", "install", "both">>
       ELSE <<"Error:">> \o m

\* Mutant: the catch-callback empties the list.
SearchRejectClearsResults(i, msg) ==
    /\ i \in 1..Len(searches)
    /\ ~searches[i].settled
    /\ searches' = [ searches EXCEPT ![i].settled = TRUE ]
    /\ IF signalAborted(i)
       THEN /\ UNCHANGED << results, selectedIndex, loading, error, appliedSearch >>
            /\ renderRequested' = FALSE
       ELSE /\ loading' = FALSE
            /\ error' = searchErrorText(msg)
            /\ results' = <<>>
            /\ selectedIndex' = 0
            /\ appliedSearch' = i
            /\ renderRequested' = TRUE
    /\ UNCHANGED << query, debounceTimer, currentSearch, previewVars, reads,
                    timers, closed, doneResult, keyNo, sinceKey, appliedRead >>

\* catch-callback of backend run i, which rejected with message msg.
SearchReject(i, msg) ==
    /\ i \in 1..Len(searches)
    /\ ~searches[i].settled
    /\ searches' = [ searches EXCEPT ![i].settled = TRUE ]
    /\ IF signalAborted(i)
       THEN /\ UNCHANGED << loading, error, appliedSearch >>
            /\ renderRequested' = FALSE
       ELSE /\ loading' = FALSE
            /\ error' = searchErrorText(msg)
            /\ appliedSearch' = i
            /\ renderRequested' = TRUE
    /\ UNCHANGED << query, results, selectedIndex, debounceTimer, currentSearch,
                    previewVars, reads, timers, closed, doneResult, keyNo,
                    sinceKey, appliedRead >>

\* then-callback of read j, which resolved with buffer buf.
PreviewResolve(j, buf) ==
    /\ j \in 1..Len(reads)
    /\ ~reads[j].settled
    /\ reads' = [ reads EXCEPT ![j].settled = TRUE ]
    /\ IF isStale(reads[j].path)
       THEN /\ UNCHANGED << previewLines, previewLoading, appliedRead >>
            /\ renderRequested' = FALSE
       ELSE /\ previewLines' = IF isBinary(buf) THEN BinaryLines(reads[j].path)
                               ELSE TextLines(reads[j].path, buf.n)
            /\ previewLoading' = FALSE
            /\ appliedRead' = j
            /\ renderRequested' = TRUE
    /\ UNCHANGED << overlayVars, previewPath, previewError, previewScroll,
                    searches, timers, closed, doneResult, keyNo, sinceKey,
                    appliedSearch >>

\* The placeholder for a read that rejected with err.
previewErrorText(err) ==
    IF err.code = "EISDIR" THEN "(directory)"
    ELSE IF err.code = "ETOOLARGE" THEN "(file too large)"
    ELSE err.message

\* catch-callback of read j, which rejected with err.
PreviewReject(j, err) ==
    /\ j \in 1..Len(reads)
    /\ ~reads[j].settled
    /\ reads' = [ reads EXCEPT ![j].settled = TRUE ]
    /\ IF isStale(reads[j].path)
       THEN /\ UNCHANGED << previewLines, previewLoading, previewError, appliedRead >>
            /\ renderRequested' = FALSE
       ELSE /\ previewLoading' = FALSE
            /\ previewError' = previewErrorText(err)
            /\ previewLines' = EmptyLines
            /\ appliedRead' = j
            /\ renderRequested' = TRUE
    /\ UNCHANGED << overlayVars, previewPath, previewScroll, searches, timers,
                    closed, doneResult, keyNo, sinceKey, appliedSearch >>

\* The overlay with every backend run and every read taken as its outcome:
\* the pipeline and readFileChecked are not stepped (they are under SpecIO).
Next ==
    \/ KeyCancel /\ UNCHANGED << ioVars, viewVars, critVars >>
    \/ KeyConfirm /\ UNCHANGED << ioVars, viewVars, critVars >>
    \/ \E delta \in { -1, 1 } : KeyMove(delta) /\ UNCHANGED << ioVars, viewVars, critVars >>
    \/ \E delta \in { halfPage, 0 - halfPage, 1, -1 } :
          KeyScroll(delta) /\ UNCHANGED << ioVars, viewVars, critVars >>
    \/ \E q \in Queries : KeyOther(q) /\ UNCHANGED << ioVars, viewVars, critVars >>
    \/ Tick /\ UNCHANGED << ioVars, viewVars, critVars >>
    \/ \E t \in timers : TimerFire(t) /\ UNCHANGED << ioVars, viewVars, critVars >>
    \/ \E i \in 1..Len(searches), paths \in Listings :
          SearchResolve(i, paths) /\ UNCHANGED << ioVars, viewVars, critVars >>
    \/ \E i \in 1..Len(searches), msg \in SearchErrors :
          SearchReject(i, msg) /\ UNCHANGED << ioVars, viewVars, critVars >>
    \/ \E j \in 1..Len(reads), buf \in Buffers :
          PreviewResolve(j, buf) /\ UNCHANGED << ioVars, viewVars, critVars >>
    \/ \E j \in 1..Len(reads), err \in ReadErrors :
          PreviewReject(j, err) /\ UNCHANGED << ioVars, viewVars, critVars >>

Spec == Init /\ [][Next]_vars

\* ----------------------------------------------------- the backend pipeline
\* One backend run, event by event: the run of the current request.

\* fzf was spawned (the query is non-empty); the stage rl reads from.
hasFzf == fzf.state # "none"
source == IF hasFzf THEN fzf ELSE fd

\* The k-th line of the backend's output: paths, and one blank line.
PathCycle == << A, B, D >>
LineAt(k) == IF k = BlankAt THEN <<>> ELSE PathCycle[((k - 1) % 3) + 1]

\* How many lines the source stage prints before it exits by itself.
OutputLengths == { 0, 1, BlankAt + 1, MaxEmit }

\* What a handler does to the promise: nothing, resolve(v) or reject(v).
NoSettle == [ kind |-> "none", value |-> <<>> ]
Resolve(v) == [ kind |-> "resolved", value |-> v ]
Reject(v) == [ kind |-> "rejected", value |-> v ]

\* kill() on one child: a running process gets the signal.
kill(p) == IF p.state = "running" THEN [ p EXCEPT !.state = "killed" ] ELSE p

\* Mutant: kill() forgets the filter stage.
killPipelineFdOnly == [ fd |-> kill(fd), fzf |-> fzf ]

\* kill() of runSearch: both children.
killPipeline == [ fd |-> kill(fd), fzf |-> kill(fzf) ]

\* fzf's stdin is at end of input: fd exited, or fd failed to start and the
\* first 'error' handler of fd ended fzf's stdin.
FzfInputClosed == fd.state = "exited" \/ (fd.state = "failed" /\ fd.errorSeen)

\* Mutant: the cap is tested with > in place of >=.
capReachedLate(n) == n > MAX_RESULTS

capReached(n) == n >= MAX_RESULTS

\* Mutant: at the cap the handler resolves but neither kills the pipeline
\* nor closes rl.
onLineNoKill(l) ==
    IF done \/ l = <<>> THEN
        [ lines |-> lines, done |-> done, stop |-> FALSE, settle |-> NoSettle ]
    ELSE LET ls == Append(lines, l)
         IN IF capReached(Len(ls))
            THEN [ lines |-> ls, done |-> TRUE, stop |-> FALSE,
                   settle |-> Resolve(ls) ]
            ELSE [ lines |-> ls, done |-> done, stop |-> FALSE,
                   settle |-> NoSettle ]

\* rl.on("line"): the locals after the handler, whether it killed the
\* pipeline and closed rl, and what it did to the promise.
onLine(l) ==
    IF done \/ l = <<>> THEN
        [ lines |-> lines, done |-> done, stop |-> FALSE, settle |-> NoSettle ]
    ELSE LET ls == Append(lines, l)
         IN IF capReached(Len(ls))
            THEN [ lines |-> ls, done |-> TRUE, stop |-> TRUE,
                   settle |-> Resolve(ls) ]
            ELSE [ lines |-> ls, done |-> done, stop |-> FALSE,
                   settle |-> NoSettle ]

\* Mutant: a close without any line is taken as a failure of the pipeline.
onCloseRejectsEmpty ==
    IF done THEN [ done |-> TRUE, settle |-> NoSettle ]
    ELSE IF lines = <<>> THEN [ done |-> TRUE, settle |-> Reject(<<"exit", "1">>) ]
    ELSE [ done |-> TRUE, settle |-> Resolve(lines) ]

\* Mutant: the close handler resolves without looking at done.
onCloseIgnoresDone == [ done |-> TRUE, settle |-> Resolve(lines) ]

\* rl.on("close").
onClose ==
    IF done THEN [ done |-> TRUE, settle |-> NoSettle ]
    ELSE [ done |-> TRUE, settle |-> Resolve(lines) ]

\* source.on("error").
onSourceError(err) ==
    IF done THEN [ done |-> TRUE, settle |-> NoSettle ]
    ELSE [ done |-> TRUE, settle |-> Reject(err) ]

\* fd.on("error") of line 126, run with the flag d the handlers before it left.
onFdError(err, d) ==
    IF d \/ hasFzf THEN [ done |-> d, settle |-> NoSettle ]
    ELSE [ done |-> TRUE, settle |-> Reject(err) ]

\* The promise of runSearch settles as st says and the callback search()
\* attached to it runs before any other event; a settled promise stays as
\* it is.
Settle(st) ==
    IF st.kind = "none" \/ outcome # "pending"
    THEN /\ outcome' = outcome
         /\ UNCHANGED pickerVars
    ELSE /\ outcome' = st.kind
         /\ IF st.kind = "resolved"
            THEN SearchResolve(tracked, st.value)
            ELSE SearchReject(tracked, st.value)

\* rl emits 'line' with the next line of the source's output.
Line ==
    /\ source.state \in { "running", "killed" }
    /\ hasFzf => fd.state # "failed"
    /\ emitted < MaxEmit
    /\ LET h == onLine(LineAt(emitted + 1))
       IN /\ emitted' = emitted + 1
          /\ lines' = h.lines
          /\ done' = h.done
          /\ rlClosed' = (rlClosed \/ h.stop)
          /\ fd' = IF h.stop THEN killPipeline.fd ELSE fd
          /\ fzf' = IF h.stop THEN killPipeline.fzf ELSE fzf
          /\ Settle(h.settle)
    /\ UNCHANGED << tracked, installed, stats >>

\* The input of rl ends: 'close' is emitted unless rl.close() was called.
RlCloses ==
    IF rlClosed
    THEN /\ UNCHANGED << rlClosed, done >>
         /\ Settle(NoSettle)
    ELSE /\ rlClosed' = TRUE
         /\ LET h == onClose
            IN done' = h.done /\ Settle(h.settle)

\* fd emits 'error': it could not be started.  Its handlers run in the order
\* they were attached (lines 86, 120 when fd is the source, 126).
FdError ==
    /\ fd.state = "failed" /\ ~fd.errorSeen
    /\ fd' = [ fd EXCEPT !.errorSeen = TRUE ]
    /\ LET err == <<"spawn", "fd", "ENOENT">>
           h1 == IF hasFzf THEN [ done |-> done, settle |-> NoSettle ]
                 ELSE onSourceError(err)
           h2 == onFdError(err, h1.done)
       IN /\ done' = h2.done
          /\ Settle(IF h1.settle.kind # "none" THEN h1.settle ELSE h2.settle)
    /\ UNCHANGED << tracked, installed, fzf, emitted, lines, rlClosed, stats >>

\* fzf emits 'error': it could not be started.
FzfError ==
    /\ fzf.state = "failed" /\ ~fzf.errorSeen
    /\ fzf' = [ fzf EXCEPT !.errorSeen = TRUE ]
    /\ LET h == onSourceError(<<"spawn", "fzf", "ENOENT">>)
       IN done' = h.done /\ Settle(h.settle)
    /\ UNCHANGED << tracked, installed, fd, emitted, lines, rlClosed, stats >>

\* The pipe from fd to fzf breaks: fzf is gone while fd still writes, and
\* fd.stdout and fzf.stdin emit 'error' (EPIPE).  Their handlers (lines 84
\* and 85) are empty.
PipeError ==
    /\ hasFzf
    /\ fzf.state = "exited"
    /\ fd.state \in { "running", "killed" }
    /\ ~fd.pipeError
    /\ fd' = [ fd EXCEPT !.pipeError = TRUE ]
    /\ Settle(NoSettle)
    /\ UNCHANGED << tracked, installed, fzf, emitted, lines, done, rlClosed,
                    stats >>

\* The stdout of a source that never started closes, after its 'error'.
StreamCloses ==
    /\ source.state = "failed" /\ source.errorSeen
    /\ ~rlClosed
    /\ RlCloses
    /\ UNCHANGED << tracked, installed, fd, fzf, emitted, lines, stats >>

\* fd exits, with a status of its own or by the signal of kill(); no handler
\* looks at the status.  Its stdout ends: fzf's stdin or the input of rl.
FdExits(status) ==
    /\ fd.state \in { "running", "killed" }
    /\ (status = "SIGTERM") <=> (fd.state = "killed")
    /\ (~hasFzf /\ status # "SIGTERM") => emitted \in OutputLengths
    /\ fd' = [ fd EXCEPT !.state = "exited", !.status = status ]
    /\ IF hasFzf
       THEN UNCHANGED << rlClosed, done, outcome, pickerVars >>
       ELSE RlCloses
    /\ UNCHANGED << tracked, installed, fzf, emitted, lines, stats >>

\* fzf exits: 0 with matches and 1 without, both after it has read all its
\* input, 2 on an error of its own, or by the signal of kill().
FzfExits(status) ==
    /\ fzf.state \in { "running", "killed" }
    /\ (status = "SIGTERM") <=> (fzf.state = "killed")
    /\ status # "SIGTERM" => emitted \in OutputLengths
    /\ status = "0" => (FzfInputClosed /\ emitted > 0)
    /\ status = "1" => (FzfInputClosed /\ emitted = 0)
    /\ fzf' = [ fzf EXCEPT !.state = "exited", !.status = status ]
    /\ RlCloses
    /\ UNCHANGED << tracked, installed, fd, emitted, lines, stats >>

\* The token of request i is aborted, by cleanup() or by the next search():
\* the abort listener of line 94 calls kill() when i is the tracked run.
AbortKills(i) ==
    /\ fd' = IF i = tracked THEN killPipeline.fd ELSE fd
    /\ fzf' = IF i = tracked THEN killPipeline.fzf ELSE fzf
    /\ UNCHANGED << tracked, installed, emitted, lines, done, rlClosed, outcome,
                    stats >>

\* ------------------------------------------------------- readFileChecked

\* Mutant: a file of exactly maxSize bytes is refused.
tooLargeAtCap(size, maxSize) == size >= maxSize

tooLarge(size, maxSize) == size > maxSize

\* File sizes stat() may report.
Sizes == { 0, MAX_FILE_SIZE, MAX_FILE_SIZE + 1 }

TooLargeError == [ code |-> "ETOOLARGE", message |-> "File too large" ]

\* No buffer yet: readFile() has not resolved.
NoBuffer == [ length |-> -1, nulAt |-> -1, n |-> 0 ]

\* Buffers readFile() can resolve with: those above, an empty file, and
\* files with their only null byte at the end of, or right after, the
\* prefix isBinary() looks at.
FileBuffers ==
    Buffers \cup { [ length |-> 0, nulAt |-> -1, n |-> 1 ],
                   [ length |-> SniffLen + 1, nulAt |-> SniffLen - 1, n |-> 1 ],
                   [ length |-> SniffLen + 1, nulAt |-> SniffLen, n |-> 2 ] }

\* stat() of read j resolves with the size: readFileChecked throws over the
\* cap (the catch-callback of loadPreview runs), else it calls readFile().
StatResolves(j, size) ==
    /\ j \in 1..Len(reads)
    /\ ~reads[j].settled
    /\ \A s \in stats : s.read # j
    /\ stats' = stats \cup { [ read |-> j, size |-> size,
                               readFile |-> ~tooLarge(size, MAX_FILE_SIZE),
                               buf |-> NoBuffer ] }
    /\ IF tooLarge(size, MAX_FILE_SIZE)
       THEN PreviewReject(j, TooLargeError)
       ELSE UNCHANGED pickerVars
    /\ UNCHANGED runVars

\* stat() of read j rejects.
StatRejects(j, err) ==
    /\ \A s \in stats : s.read # j
    /\ PreviewReject(j, err)
    /\ UNCHANGED ioVars

\* readFile() of read j resolves with a buffer.
ReadFileResolves(j, buf) ==
    /\ \E s \in stats : s.read = j /\ s.readFile
    /\ PreviewResolve(j, buf)
    /\ stats' = { IF s.read = j THEN [ s EXCEPT !.buf = buf ] ELSE s : s \in stats }
    /\ UNCHANGED runVars

\* readFile() of read j rejects.
ReadFileRejects(j, err) ==
    /\ \E s \in stats : s.read = j /\ s.readFile
    /\ PreviewReject(j, err)
    /\ UNCHANGED ioVars

\* The first request of a picker, or the request for the typed query, with
\* any of the tools missing, alone or with the debounce timer of the next
\* query change due; then the run and the read of the first result.  The
\* run a superseding search() starts is not tracked.
InitIO ==
    /\ InitView
    /\ NotCalled
    /\ \E inst \in Installs :
          \/ InitOverlay /\ InitPipeline("", inst)
          \/ TypedStart /\ InitPipeline("r", inst)
          \/ TimerDue /\ InitPipeline("", inst)
          \/ TypedTimerDue /\ InitPipeline("r", inst)

NextIO ==
    \/ Line /\ UNCHANGED << viewVars, critVars >>
    \/ FdError /\ UNCHANGED << viewVars, critVars >>
    \/ FzfError /\ UNCHANGED << viewVars, critVars >>
    \/ StreamCloses /\ UNCHANGED << viewVars, critVars >>
    \/ PipeError /\ UNCHANGED << viewVars, critVars >>
    \/ \E status \in { "0", "1", "SIGTERM" } :
          FdExits(status) /\ UNCHANGED << viewVars, critVars >>
    \/ \E status \in { "0", "1", "2", "SIGTERM" } :
          FzfExits(status) /\ UNCHANGED << viewVars, critVars >>
    \/ KeyCancel /\ AbortKills(currentSearch) /\ UNCHANGED << viewVars, critVars >>
    \/ KeyConfirm /\ AbortKills(currentSearch) /\ UNCHANGED << viewVars, critVars >>
    \/ \E t \in timers :
          TimerFire(t) /\ AbortKills(currentSearch) /\ UNCHANGED << viewVars, critVars >>
    \/ \E j \in 1..Len(reads), size \in Sizes :
          StatResolves(j, size) /\ UNCHANGED << viewVars, critVars >>
    \/ \E j \in 1..Len(reads), err \in { e \in ReadErrors : e.code = "ENOENT" } :
          StatRejects(j, err) /\ UNCHANGED << viewVars, critVars >>
    \/ \E j \in 1..Len(reads), buf \in FileBuffers :
          ReadFileResolves(j, buf) /\ UNCHANGED << viewVars, critVars >>
    \/ \E j \in 1..Len(reads), err \in { e \in ReadErrors : e.code # "ETOOLARGE" } :
          ReadFileRejects(j, err) /\ UNCHANGED << viewVars, critVars >>

SpecIO == InitIO /\ [][NextIO]_vars


\* ------------------------------------------------------ steps, by what they do

\* Backend run i settles in this step (its then/catch callback runs).
SearchSettles(i) == i <= Len(searches) /\ ~searches[i].settled /\ searches'[i].settled
\* Read j settles in this step.
ReadSettles(j) == j <= Len(reads) /\ ~reads[j].settled /\ reads'[j].settled
\* search() runs in this step.
SearchStarts == Len(searches') > Len(searches)
\* A query-changing keystroke is handled in this step.
QueryChanges == keyNo' # keyNo

SelectedPath == IF HasItem(results, selectedIndex)
                THEN results[selectedIndex + 1].path ELSE NoPath
SelectedIsFile == HasItem(results, selectedIndex)
                  /\ ~results[selectedIndex + 1].isDirectory

\* The then-callback of a live backend run applies its lines in this step.
SearchSucceeds ==
    \E i \in 1..Len(searches) :
        SearchSettles(i) /\ ~searches[i].aborted /\ error' = NoError
\* loadPreview() is called in this step: a search success or a selection move.
LoadPreviewRuns == SearchSucceeds \/ selectedIndex' # selectedIndex
\* A read is started in this step.
ReadStarts == Len(reads') = Len(reads) + 1
SelectedIsDirectory == HasItem(results, selectedIndex)
                       /\ results[selectedIndex + 1].isDirectory

\* The tracked backend run has settled and its token is live: its outcome
\* is what the list pane holds.
RunEnded == searches[tracked].settled /\ ~searches[tracked].aborted
\* A tool the run spawns is missing from the PATH.
ToolMissing == ~installed.fd \/ (hasFzf /\ ~installed.fzf)
\* A stage exited with a failure status; 1 is fzf's "no matches".
StageFailed == fd.status \in { "1", "2" } \/ fzf.status = "2"
\* What the list pane shows below the query line.
NotFoundText == <<"fd/fzf", "not", "found", "--", "install", "both">>
listPane == IF loading THEN <<"Searching...">>
            ELSE IF error # NoError THEN error
            ELSE IF Len(results) = 0 THEN <<"No", "matches">>
            ELSE <<"results">>
\* The i-th non-blank line of the backend's output.
NonBlankAt(i) == LineAt(IF i >= BlankAt THEN i + 1 ELSE i)

\* The state of the list: what search() and its callbacks made of loading
\* and error, and whether done() was called.
listState == IF closed THEN "Terminal"
             ELSE IF loading THEN "Searching"
             ELSE IF error # NoError THEN "Error"
             ELSE "Loaded"
\* The backend run i settles in this step as a failure or is discarded.
SearchFailsOrDropped(i) ==
    SearchSettles(i) /\ (searches[i].aborted \/ error' # NoError)
\* The debounce timer the overlay holds expires in this step.
DebounceExpires ==
    \E t \in timers : t.id = debounceTimer /\ t.left = 0 /\ t \notin timers'
\* The placeholders the catch-callback of loadPreview() has of its own.
PreviewPlaceholders == { "(directory)", "(file too large)", "read error" }

\* A child process that was started and has not exited.
Alive(p) == p.state \in { "running", "killed" }
\* The buffer has a null byte among its first min(length, 512) bytes.
NullInPrefix(buf) ==
    buf.nulAt >= 0 /\ buf.nulAt < buf.length /\ buf.nulAt < 512

\* The right pane shows "Loading...".
RendersLoading == previewLoading
\* The right pane shows the lines of previewLines.
RendersLines == ~previewLoading /\ previewError = Null
\* previewLines holds what was read from a file.
HoldsFileContent == previewLines.kind \in { "text", "binary" }

\* ------------------------------------------------------------------ claims

\* C1 -- Preview staleness guard.  (a) The completion, success or failure,
\* of a read of path A changes no preview field when previewPath is not A at
\* completion time.  (b) Whenever the pane renders file content, that content
\* was read from the path of the selected entry.  (c) While previewLines
\* still holds the lines of another file than the one previewPath names, the
\* pane renders "Loading..." and not those lines.
C1_StaleCompletionDropped ==
    \A j \in 1..Len(reads) :
        (ReadSettles(j) /\ previewPath # reads[j].path) => UNCHANGED previewVars
C1_RenderedContentIsSelected ==
    /\ (RendersLines /\ HoldsFileContent) =>
            (SelectedIsFile /\ previewLines.src = SelectedPath)
    /\ (HoldsFileContent /\ previewLines.src # previewPath) => RendersLoading
C1_PreviewStalenessGuard ==
    /\ C1_RenderedContentIsSelected
    /\ [][C1_StaleCompletionDropped /\ C1_RenderedContentIsSelected']_vars
\* Witness: the read of the first selected file settled and was dropped (no
\* read was ever applied) after the selection moved to another file, whose
\* read is pending and shown as "Loading...".
C1_Witness ==
    /\ Len(reads) = 2
    /\ reads[1].settled /\ ~reads[2].settled
    /\ reads[1].path # reads[2].path
    /\ appliedRead = 0
    /\ previewPath = reads[2].path /\ RendersLoading


\* C2 -- Search supersede invariant.  Once search() has started a newer run,
\* the completion of an older run (in whatever order the backends finish)
\* sets none of results, selectedIndex, loading and error: the only completion
\* ever applied is that of the run issued last, and when that run has
\* completed un-aborted the list state is the one its completion set.
C2_OnlyCurrentApplied ==
    /\ \A i \in 1..Len(searches) :
          (SearchSettles(i) /\ i # currentSearch) =>
              UNCHANGED << results, selectedIndex, loading, error, appliedSearch >>
    /\ appliedSearch' # appliedSearch => appliedSearch' = currentSearch
C2_CompletedRunIsShown ==
    \A i \in 1..Len(searches) :
        (searches[i].settled /\ ~searches[i].aborted) =>
            (i = Len(searches) /\ appliedSearch = i /\ ~loading)
C2_SearchSupersede ==
    /\ C2_CompletedRunIsShown
    /\ [][C2_OnlyCurrentApplied /\ C2_CompletedRunIsShown']_vars
\* Witness: the first run completed after the second was started and was
\* dropped (no completion was ever applied); the second is still running.
C2_Witness ==
    /\ Len(searches) >= 2
    /\ searches[1].settled /\ searches[1].query # searches[2].query
    /\ ~searches[2].settled
    /\ appliedSearch = 0 /\ results = <<>> /\ error = NoError /\ loading

\* C3 -- Whenever the result list is not empty, selectedIndex is an index
\* into it.
C3_SelectedIndexInRange ==
    Len(results) > 0 => (0 <= selectedIndex /\ selectedIndex < Len(results))
\* Witness: the selection is on the last entry of a list of three (reached by
\* moving up from index 0, or down twice), after a search completion was
\* applied.
C3_Witness ==
    /\ Len(results) = 3 /\ selectedIndex = 2 /\ appliedSearch >= 1

\* C4 -- At most one search request has a non-aborted token: every request
\* other than the one issued last is aborted.
C4_OneLiveToken ==
    /\ \A i \in 1..Len(searches) : i < Len(searches) => searches[i].aborted
    /\ Cardinality({ i \in 1..Len(searches) : ~searches[i].aborted }) <= 1
\* Witness: search() has superseded a run that was still in flight; the new
\* run is the only one not aborted.
C4_Witness ==
    /\ Len(searches) >= 2
    /\ ~searches[1].settled /\ searches[1].aborted
    /\ ~searches[Len(searches)].aborted


\* C5 -- At most one in-flight preview read is live (would have its
\* completion applied): a read superseded by a later selection change is
\* dropped on completion, also when the selection has since returned to the
\* same path.
C5_OneLiveRead ==
    Cardinality({ j \in 1..Len(reads) :
                    ~reads[j].settled /\ ~isStale(reads[j].path) }) <= 1

\* C6 -- Completions are applied in issue order, for search runs and for
\* preview reads: once the completion of a request has been applied, the
\* completion of a request issued earlier is never applied afterwards.
C6_IssueOrder ==
    [][appliedSearch' >= appliedSearch /\ appliedRead' >= appliedRead]_vars

\* C7 -- Preview scroll invariant: previewScroll stays within
\* [0, max(0, previewLines.length - previewContentRows)].
C7_ScrollInRange ==
    /\ 0 <= previewScroll
    /\ previewScroll <= Max(0, previewLines.n - layout.previewContentRows)

\* C8 -- Debounce.  A search run starts only DEBOUNCE_MS after the last
\* query-changing keystroke (never inside a burst), for the query text as it
\* is then, at most once per burst, and starting it aborts every earlier run;
\* while the overlay is shown the one pending timer is due DEBOUNCE_MS after
\* the last keystroke, and once it is gone the run of the last keystroke has
\* been started.
C8_RunStartsAfterBurst ==
    SearchStarts =>
        /\ sinceKey = DEBOUNCE_MS
        /\ Len(searches') = Len(searches) + 1
        /\ searches'[Len(searches')].query = query
        /\ searches'[Len(searches')].key = keyNo
        /\ \A i \in 1..Len(searches) :
              searches[i].key < keyNo /\ searches'[i].aborted
C8_TimerFollowsLastKey ==
    /\ Cardinality(timers) <= 1
    /\ \A t \in timers : t.id = keyNo /\ t.left = DEBOUNCE_MS - sinceKey
    /\ (~closed /\ keyNo > 0 /\ timers = {}) =>
            searches[Len(searches)].key = keyNo
C8_Debounce ==
    /\ C8_TimerFollowsLastKey
    /\ [][C8_RunStartsAfterBurst /\ C8_TimerFollowsLastKey']_vars
\* Witness: a burst of two keystrokes, the second less than DEBOUNCE_MS after
\* the first (no run was started for the first), then the one run of the
\* burst, started for the final text while the initial run was in flight.
C8_Witness ==
    /\ keyNo = 2 /\ Len(searches) = 2 /\ timers = {}
    /\ searches[2].key = 2 /\ searches[2].query = query
    /\ searches[1].aborted /\ ~searches[1].settled

\* C9 (as claimed) -- a query change while a run is in flight cancels that
\* run within the debounce window: while the debounce timer is pending no
\* run in flight has a live token.
C9_CancelledByKeystroke ==
    timers # {} => \A i \in 1..Len(searches) :
                        ~searches[i].settled => searches[i].aborted
\* C9 (amended) -- a query change leaves the run in flight untouched; the
\* run is aborted when the debounced search() starts, and once the debounce
\* has elapsed exactly one request has been issued for the keystroke, with
\* the typed query.
C9_KeystrokeKeepsRun == QueryChanges => searches' = searches
C9_StartAbortsRun ==
    SearchStarts =>
        /\ \A i \in 1..Len(searches) : searches'[i].aborted
        /\ ~searches'[Len(searches')].aborted
C9_OneFilteredRequest ==
    (~closed /\ keyNo > 0 /\ timers = {}) =>
        /\ Cardinality({ i \in 1..Len(searches) : searches[i].key = keyNo }) = 1
        /\ \A i \in 1..Len(searches) :
              searches[i].key = keyNo => searches[i].query = query
C9_CancelledAtDebouncedStart ==
    /\ C9_OneFilteredRequest
    /\ [][C9_KeystrokeKeepsRun /\ C9_StartAbortsRun /\ C9_OneFilteredRequest']_vars
\* Witness: "r" was typed while the initial listing was in flight; after the
\* debounce the listing is aborted, still unsettled, and the one request for
\* "r" is running.
C9_Witness ==
    /\ keyNo = 1 /\ query = "r" /\ timers = {} /\ ~closed
    /\ Len(searches) = 2
    /\ searches[1].query = "" /\ searches[1].aborted /\ ~searches[1].settled
    /\ searches[2].query = "r" /\ ~searches[2].aborted

\* C10 -- Teardown of search work.  When done() has been called the debounce
\* timer is cleared and every search token is aborted; afterwards no search
\* run starts, and no search completion changes the overlay state or requests
\* a re-render.
C10_FlushedAtDone ==
    closed => (timers = {} /\ \A i \in 1..Len(searches) : searches[i].aborted)
C10_NoSearchWorkAfterDone ==
    closed =>
        /\ ~SearchStarts
        /\ \A i \in 1..Len(searches) :
              SearchSettles(i) =>
                  (UNCHANGED << overlayVars, previewVars >> /\ ~renderRequested')
C10_SearchTeardown ==
    /\ C10_FlushedAtDone
    /\ [][C10_NoSearchWorkAfterDone /\ C10_FlushedAtDone']_vars
\* Witness: the overlay was closed while the debounce timer of a keystroke
\* was pending (no run was ever started for it) and the initial run was in
\* flight; that run completed after teardown and was dropped.
C10_Witness ==
    /\ closed /\ keyNo = 1 /\ Len(searches) = 1
    /\ searches[1].settled /\ appliedSearch = 0

\* C11 -- Preview teardown.  Once done() has been invoked (confirm or
\* cancel), the completion of a read that was in flight changes no overlay
\* or preview field and requests no render.
C11_NoPreviewWorkAfterDone ==
    [][closed =>
          \A j \in 1..Len(reads) :
              ReadSettles(j) =>
                  (UNCHANGED << overlayVars, previewVars >> /\ ~renderRequested')]_vars

\* C12 -- Superseded completion.  The completion of a backend run whose
\* token is aborted, whether it resolves or rejects, changes none of
\* results, selectedIndex, loading, error, the preview fields, and requests
\* no render.
C12_SupersededCompletionInert ==
    [][\A i \in 1..Len(searches) :
          (SearchSettles(i) /\ searches[i].aborted) =>
              /\ UNCHANGED << results, selectedIndex, loading, error, previewVars >>
              /\ reads' = reads
              /\ ~renderRequested']_vars

\* The first run settled after it was superseded, while the overlay is open
\* and still waits for its successor: nothing was applied or rendered.
C12_Witness ==
    /\ ~closed
    /\ Len(searches) = 2
    /\ searches[1].aborted /\ searches[1].settled
    /\ ~searches[2].settled
    /\ appliedSearch = 0
    /\ loading /\ results = <<>> /\ error = NoError
    /\ ~renderRequested

\* C17 -- As stated: when a live search run succeeds, selectedIndex becomes
\* 0 and a read of results[0] is started whenever results[0] is a file, also
\* when its path is the path previewed before.
C17_AlwaysReloads ==
    [][SearchSucceeds =>
          /\ selectedIndex' = 0
          /\ (HasItem(results', 0) /\ ~results'[1].isDirectory) =>
                (ReadStarts /\ reads'[Len(reads')].path = results'[1].path)]_vars

\* C17 -- Amended: when a live search run succeeds, selectedIndex becomes 0
\* and the preview is retargeted to results[0]; a read of results[0] is
\* started exactly when results[0] is a file whose path differs from
\* previewPath, and then the pane is loading that path.
C17_ReloadsUnlessSamePath ==
    [][SearchSucceeds =>
          /\ selectedIndex' = 0
          /\ ReadStarts <=> /\ HasItem(results', 0)
                            /\ ~results'[1].isDirectory
                            /\ results'[1].path # previewPath
          /\ ReadStarts => /\ reads'[Len(reads')].path = results'[1].path
                           /\ previewPath' = results'[1].path
                           /\ previewLoading'
          /\ HasItem(results', 0) => previewPath' = results'[1].path]_vars

\* A second search was applied whose first entry is the file whose read had
\* failed before: index 0 is selected and the failed read was not repeated.
C17_Witness ==
    /\ appliedSearch = 2
    /\ selectedIndex = 0 /\ HasItem(results, 0)
    /\ Len(reads) = 1 /\ reads[1].path = results[1].path
    /\ previewPath = results[1].path
    /\ previewError # Null

\* C18 -- Same-path no-op.  When loadPreview() runs for a selected file whose
\* path equals previewPath, no read starts and previewPath, previewLines,
\* previewLoading, previewError and previewScroll are unchanged.
C18_SamePathNoOp ==
    [][(/\ LoadPreviewRuns
        /\ HasItem(results', selectedIndex')
        /\ ~results'[selectedIndex' + 1].isDirectory
        /\ results'[selectedIndex' + 1].path = previewPath) =>
          (reads' = reads /\ UNCHANGED previewVars)]_vars

\* A scrolled preview of the first entry survived the application of a
\* second search with the same first entry.
C18_Witness ==
    /\ appliedSearch = 2
    /\ selectedIndex = 0 /\ HasItem(results, 0)
    /\ previewPath = results[1].path
    /\ Len(reads) = 1 /\ appliedRead = 1
    /\ previewScroll > 0

\* C19 -- Directory selection.  (a) While a directory is selected the preview
\* holds the "(directory)" placeholder, previewLoading is false, previewError
\* null, previewScroll 0 and previewPath is the directory's path.  (b) The
\* step that selects a directory starts no read.  (c) A read that completes
\* while a directory is selected changes no preview field.
C19_DirectoryPlaceholder ==
    SelectedIsDirectory =>
        /\ previewPath = SelectedPath
        /\ previewLines = DirLines
        /\ ~previewLoading
        /\ previewError = Null
        /\ previewScroll = 0

C19_DirectoryNoIO ==
    /\ (LoadPreviewRuns /\ SelectedIsDirectory') => reads' = reads
    /\ SelectedIsDirectory =>
          \A j \in 1..Len(reads) :
              ReadSettles(j) => (UNCHANGED previewVars /\ ~renderRequested')

C19_DirectorySelection ==
    /\ C19_DirectoryPlaceholder
    /\ [][C19_DirectoryNoIO /\ C19_DirectoryPlaceholder']_vars

\* The read of the first entry was in flight when the directory was selected
\* and has completed since: it was dropped and the placeholder stands.
C19_Witness ==
    /\ SelectedIsDirectory
    /\ Len(reads) = 1 /\ reads[1].settled /\ appliedRead = 0
    /\ previewLines = DirLines

\* C13 -- Tooling missing.  For the empty and the non-empty query, when a
\* tool the run spawns (fd, and fzf for a non-empty query) is missing from
\* the PATH, the run ends with the list pane showing "fd/fzf not found --
\* install both": not "No matches", not "Error: ...".
C13_MissingToolReported ==
    (RunEnded /\ ToolMissing) => listPane = NotFoundText

\* C14 -- Search failure.  When a stage of the pipeline has exited with a
\* failure status (fzf's "no matches" status apart), the run that is not
\* superseded ends with the list pane in the error state.
C14_FailedStageReported ==
    (RunEnded /\ StageFailed) => (~loading /\ error # NoError)

\* C15 -- No matches.  When fzf exits with its "no matches" status, having
\* printed no line, the run resolves with the empty sequence: results is
\* empty, error null, loading false, and the pane shows "No matches".
C15_NoMatchesIsEmptyResult ==
    (RunEnded /\ fzf.status = "1") =>
        /\ outcome = "resolved"
        /\ results = <<>> /\ error = NoError /\ ~loading
        /\ listPane = <<"No", "matches">>

\* Both tools run, fd lists its files and exits, fzf matches none of them.
C15_Witness ==
    /\ RunEnded
    /\ installed = AllInstalled
    /\ fd.status = "0" /\ fzf.status = "1"
    /\ listPane = <<"No", "matches">>

\* C16 -- Result cap and order.  results (and the lines collected for it)
\* never holds more than MAX_RESULTS entries, whatever the query and however
\* many lines the backend emits, and its i-th entry is the i-th non-blank
\* line the backend emitted.
C16_CappedInEmissionOrder ==
    /\ Len(lines) <= MAX_RESULTS
    /\ Len(results) <= MAX_RESULTS
    /\ Len(results) <= emitted
    /\ \A i \in 1..Len(lines) : lines[i] = NonBlankAt(i)
    /\ \A i \in 1..Len(results) : results[i].path = NonBlankAt(i)

\* fzf printed more than MAX_RESULTS + 1 lines for a query; the list holds
\* the first MAX_RESULTS non-blank ones.
C16_Witness ==
    /\ hasFzf
    /\ emitted > MAX_RESULTS + 2
    /\ Len(results) = MAX_RESULTS
    /\ results[MAX_RESULTS].path = NonBlankAt(MAX_RESULTS)

\* C20 -- Size cap boundary.  (a) A read whose stat() reported exactly
\* MAX_FILE_SIZE goes on to readFile(), and when that resolves the pane
\* holds the file's content and no error.  (b) A read whose stat() reported
\* MAX_FILE_SIZE + 1 or more never calls readFile(), and the pane ends with
\* "(file too large)" and no lines.
C20_SizeCapBoundary ==
    \A s \in stats :
        /\ s.size <= MAX_FILE_SIZE =>
              /\ s.readFile
              /\ (reads[s.read].settled /\ previewError = Null) =>
                    (HoldsFileContent /\ previewLines.src = reads[s.read].path)
        /\ s.size >= MAX_FILE_SIZE + 1 =>
              /\ ~s.readFile
              /\ reads[s.read].settled
              /\ previewError = "(file too large)"
              /\ previewLines = EmptyLines
              /\ ~previewLoading

\* A file of exactly MAX_FILE_SIZE bytes was read and is previewed.
C20_Witness ==
    \E s \in stats :
        /\ s.size = MAX_FILE_SIZE /\ s.readFile
        /\ reads[s.read].settled
        /\ previewLines.kind = "text" /\ previewError = Null /\ ~previewLoading

\* C22 -- Preview failure placeholders.  previewError is null or one of the
\* fixed placeholders "(directory)", "(file too large)", "read error", never
\* the text of the underlying error; and when it is set, previewLoading is
\* false and previewLines is empty.
C22_ErrorIsPlaceholder ==
    previewError # Null =>
        /\ previewError \in PreviewPlaceholders
        /\ ~previewLoading
        /\ previewLines = EmptyLines

\* C27 -- As stated: the list state only changes along Searching -> Loaded,
\* Searching -> Error, Loaded -> Searching, Loaded -> Terminal and
\* Error -> Terminal (Idle -> Searching is the constructor).
C27_ListedTransitionsOnly ==
    [][listState' # listState =>
          << listState, listState' >> \in
              { << "Searching", "Loaded" >>, << "Searching", "Error" >>,
                << "Loaded", "Searching" >>,
                << "Loaded", "Terminal" >>, << "Error", "Terminal" >> }]_vars

\* C27 -- Amended: the transitions above, and also Error -> Searching (a
\* keystroke-triggered run after a failure) and Searching -> Terminal
\* (cancel or confirm while a run is in flight).  A step into Searching is
\* the start of a run, a step into Loaded or Error the completion of the
\* current run, and Terminal is never left.
C27_Transitions ==
    [][listState' # listState =>
          /\ << listState, listState' >> \in
                { << "Searching", "Loaded" >>, << "Searching", "Error" >>,
                  << "Loaded", "Searching" >>, << "Error", "Searching" >>,
                  << "Loaded", "Terminal" >>, << "Error", "Terminal" >>,
                  << "Searching", "Terminal" >> }
          /\ listState' = "Searching" => SearchStarts
          /\ listState' \in { "Loaded", "Error" } => SearchSettles(currentSearch)
          /\ listState' = "Terminal" => (closed' /\ ~closed)]_vars

\* A run was started by a keystroke while the list showed a failure: the
\* list is searching again, the old message still in the field.
C27_Witness ==
    /\ listState = "Searching"
    /\ error # NoError
    /\ appliedSearch = 1 /\ Len(searches) = 2

\* C29 -- No automatic retries.  (a) A backend run starts only when the
\* debounce timer the overlay holds expires (the first run is part of the
\* initial state).  (b) A read starts only in a step that moves the
\* selection or applies a search success.  (c) A failed or discarded
\* completion of a run, and any completion of a read, starts neither.
C29_NoRetries ==
    [][/\ SearchStarts => DebounceExpires
       /\ ReadStarts => LoadPreviewRuns
       /\ \A i \in 1..Len(searches) :
             SearchFailsOrDropped(i) => (~SearchStarts /\ reads' = reads)
       /\ \A j \in 1..Len(reads) :
             ReadSettles(j) => (~SearchStarts /\ Len(reads') = Len(reads))]_vars

\* The only run failed and the overlay has been waiting since: no other
\* run, no read, no timer.
C29_Witness ==
    /\ ~closed
    /\ Len(searches) = 1 /\ searches[1].settled
    /\ listState = "Error"
    /\ reads = <<>> /\ timers = {}
    /\ sinceKey = 0 /\ keyNo = 0

\* C21 -- Binary sniffing.  A file that was read is shown with the "(binary
\* file)" placeholder exactly when one of its first min(length, 512) bytes
\* is a null byte; otherwise, and for a zero-byte file in particular, it is
\* shown as the lines of its decoded text.
C21_BinaryIffNullInPrefix ==
    \A s \in stats :
        s.buf # NoBuffer =>
            /\ previewLines.kind = "binary" <=> NullInPrefix(s.buf)
            /\ previewLines.kind = "text" <=> ~NullInPrefix(s.buf)
            /\ previewLines.kind = "text" => previewLines.n = s.buf.n
            /\ s.buf.length = 0 => previewLines.kind = "text"

\* A file longer than the sniffed prefix whose only null byte is the first
\* byte after the prefix was read: it is shown as text.
C21_Witness ==
    \E s \in stats :
        /\ s.buf # NoBuffer
        /\ s.buf.nulAt = 512 /\ s.buf.length > 512
        /\ previewLines.kind = "text"

\* C28 -- Abort terminates the pipeline.  Once the token of the tracked
\* request is aborted, by teardown or by a superseding search(), no process
\* spawned for it is running without having been sent a kill; and the step
\* that aborts the token sends the kill to each process that is alive.
C28_NoProcessLeftRunning ==
    searches[tracked].aborted =>
        (fd.state # "running" /\ fzf.state # "running")

C28_AbortStepKills ==
    (~searches[tracked].aborted /\ searches'[tracked].aborted) =>
        /\ Alive(fd) => fd'.state = "killed"
        /\ Alive(fzf) => fzf'.state = "killed"

C28_AbortKillsPipeline ==
    /\ C28_NoProcessLeftRunning
    /\ [][C28_AbortStepKills /\ C28_NoProcessLeftRunning']_vars

\* The run for "r" was superseded while fd and fzf were both running: the
\* overlay is open, both got the signal and neither has exited yet.
C28_Witness ==
    /\ ~closed
    /\ tracked # currentSearch
    /\ searches[tracked].aborted /\ ~searches[tracked].settled
    /\ fd.state = "killed" /\ fzf.state = "killed"

\* C30 -- Early exit at the cap.  The step that collects the MAX_RESULTS-th
\* non-blank line sets done, sends the kill to each stage that is alive,
\* closes rl and resolves the promise with these MAX_RESULTS lines, the
\* stages still not exited; from then on lines never changes.
C30_CapStep ==
    /\ (Len(lines) < MAX_RESULTS /\ Len(lines') = MAX_RESULTS) =>
          /\ done' /\ rlClosed'
          /\ outcome' = "resolved"
          /\ searches'[tracked].settled
          /\ Alive(fd) => fd'.state = "killed"
          /\ Alive(fzf) => fzf'.state = "killed"
          /\ ~searches[tracked].aborted =>
                (/\ Len(results') = MAX_RESULTS
                 /\ \A i \in 1..MAX_RESULTS : results'[i].path = lines'[i])
    /\ Len(lines) = MAX_RESULTS => lines' = lines

C30_EarlyExitAtCap == [][C30_CapStep]_vars

\* The cap was reached and the run resolved while the source, killed, has
\* not exited; it delivered further lines, which were not added.
C30_Witness ==
    /\ Len(lines) = MAX_RESULTS
    /\ outcome = "resolved" /\ Len(results) = MAX_RESULTS
    /\ source.state = "killed"
    /\ emitted > MAX_RESULTS + 1

\* ----------------------------------------------------------------- render
\* Texts are followed by their display width in terminal columns. Every
\* glyph the overlay draws (ELLIPSIS, POINTER, the arrows, the box lines) is
\* one column wide, as is every character of the paths and messages here.

MaxShown == 20      \* largest result count rendered
MaxWidth == 82      \* largest overlay width rendered
LongName == 60      \* length of the longest directory name listed
LongLine == 120     \* width of the longest previewed line

\* minWidth of the overlay options.
MinWidth == 80

\* The marker renderLeftPanel() pushes in place of the separator row.
SEPARATOR == -1

visibleWidth(s) == Len(s)

\* Width of the words of msg joined by single blanks.
RECURSIVE joinedWidth(_)
joinedWidth(msg) ==
    IF Len(msg) = 0 THEN 0
    ELSE IF Len(msg) = 1 THEN visibleWidth(msg[1])
    ELSE visibleWidth(msg[1]) + 1 + joinedWidth(Tail(msg))

\* truncateToWidth(text, maxWidth, ELLIPSIS) of pi-tui: text as it is when
\* it fits, else cut to maxWidth columns, the ellipsis included.
truncateToWidth(w, maxWidth) == Min(w, maxWidth)

\* The loop of truncateFromLeft(): the number of leading characters dropped.
RECURSIVE dropFromLeft(_, _, _)
dropFromLeft(start, len, maxWidth) ==
    IF start < len /\ (len - start) + visibleWidth("~") > maxWidth
    THEN dropFromLeft(start + 1, len, maxWidth)
    ELSE start

truncateFromLeft(len, maxWidth) ==
    IF len <= maxWidth THEN len
    ELSE visibleWidth("~") + (len - dropFromLeft(0, len, maxWidth))

\* Mutant: the window start is not clamped to total - visible.
listWindowNoUpperClamp(sel, total, listRows) ==
    LET visible == Min(listRows, total)
        halfVisible == visible \div 2
        start == Max(0, sel - halfVisible)
    IN [ start |-> start, end |-> Min(start + visible, total) ]

\* The rows start..end-1 of the result list that renderLeftPanel() draws.
listWindow(sel, total, listRows) ==
    LET visible == Min(listRows, total)
        halfVisible == visible \div 2
        start == Max(0, Min(sel - halfVisible, total - visible))
    IN [ start |-> start, end |-> Min(start + visible, total) ]

\* Width of the row of one result (the pointer or two blanks, the name, the
\* directory cut from the left).
itemRow(item, leftW) ==
    LET prefix == visibleWidth("> ")
        nameWidth == 1 + prefix + visibleWidth(item.name) + 1
        availableForDir == leftW - nameWidth
        dirStr == IF item.dir # <<".">>
                  THEN 1 + truncateFromLeft(visibleWidth(item.dir), availableForDir)
                  ELSE 0
    IN truncateToWidth(1 + prefix + visibleWidth(item.name) + dirStr, leftW)

\* Number of decimal digits of n (n is at most MAX_RESULTS).
digits(n) == IF n < 10 THEN 1 ELSE IF n < 100 THEN 2 ELSE 3

\* Input.render(width) of pi-tui: the one line of the search field, filled
\* to width columns.
inputRender(width) == << width >>

\* renderLeftPanel(): the width of each row, SEPARATOR for the separator.
renderLeftPanel(lay) ==
    LET leftW == lay.leftW
        listRows == lay.listRows
        total == Len(results)
        win == listWindow(selectedIndex, total, listRows)
        head == << 1 + visibleWidth("Find File"), 0 >>
                \o [ i \in 1..Len(inputRender(leftW - 2)) |->
                       1 + inputRender(leftW - 2)[i] ]
                \o << SEPARATOR >>
        list == IF loading THEN << 1 + visibleWidth("Searching...") >>
                ELSE IF error # NoError THEN << 1 + joinedWidth(error) >>
                ELSE IF total = 0 THEN << 1 + visibleWidth("No matches") >>
                ELSE [ i \in 1..(win.end - win.start) |->
                         itemRow(results[win.start + i], leftW) ]
        fill == [ i \in 1..(listRows - Len(list)) |-> 0 ]
        info == IF ~loading /\ error = NoError /\ total > 0
                THEN 2 + digits(selectedIndex + 1) + 1 + digits(total)
                ELSE 0
        help == 1 + visibleWidth("^v/C-n/p nav . C-d/u scroll . </esc")
    IN head \o list \o fill \o << info, 0, help >>

\* Width of line i (from 0) of previewLines: the two placeholder texts are
\* known, the lines of a text file are by turns long and empty.
lineWidth(pl, i) ==
    IF pl.kind = "directory"
    THEN (IF i = 0 THEN 0 ELSE visibleWidth("  (directory)"))
    ELSE IF pl.kind = "binary"
    THEN (IF i = 0 THEN 0 ELSE visibleWidth("  (binary file)"))
    ELSE (IF i % 2 = 0 THEN LongLine ELSE 0)

\* renderRightPanel(): the width of each row.
renderRightPanel(lay) ==
    LET rightW == lay.rightW
        totalRows == lay.totalRows
        hasItem == HasItem(results, selectedIndex)
        previewTitle == IF hasItem
                        THEN truncateToWidth(
                                 visibleWidth(results[selectedIndex + 1].path),
                                 rightW - 2)
                        ELSE visibleWidth("No file selected")
        contentHeight == totalRows - 2
        start == previewScroll
        end == Min(start + contentHeight, previewLines.n)
        content ==
            IF previewLoading THEN << 1 + visibleWidth("Loading...") >>
            ELSE IF previewError # Null THEN << 1 + visibleWidth(previewError) >>
            ELSE IF previewLines.n = 0 /\ ~hasItem THEN << >>
            ELSE [ i \in 1..(end - start) |->
                     truncateToWidth(1 + lineWidth(previewLines, start + i - 1),
                                     rightW) ]
        head == << 1 + previewTitle, 0 >> \o content
    IN head \o [ i \in 1..(totalRows - Len(head)) |-> 0 ]

\* pad() of mergePanels(): blanks are appended up to w columns, a longer
\* text is left as it is.
pad(vis, w) == vis + Max(0, w - vis)

\* mergePanels(): the width of each row of the box.
mergePanels(left, right, lay) ==
    LET leftW == lay.leftW
        rightW == lay.rightW
        edge == << 1 + leftW + 1 + rightW + 1 >>
        rightAt(i) == IF i <= Len(right) THEN right[i] ELSE 0
        row(i) == IF left[i] = SEPARATOR
                  THEN 1 + leftW + 1 + pad(rightAt(i), rightW) + 1
                  ELSE 1 + pad(left[i], leftW) + 1 + pad(rightAt(i), rightW) + 1
    IN edge \o [ i \in 1..Len(left) |-> row(i) ] \o edge

\* mergePanels(): what each row of the box is drawn with: the glyph at the
\* left border, across the left pane ("text": the padded line of the
\* panel), at the pane boundary, across the right pane and at the right
\* border.
mergeGlyphs(left) ==
    LET top == [ start |-> "BOX_TOP_LEFT", left |-> "BOX_HORIZONTAL",
                 mid |-> "BOX_T_DOWN", right |-> "BOX_HORIZONTAL",
                 end |-> "BOX_TOP_RIGHT" ]
        bottom == [ start |-> "BOX_BOTTOM_LEFT", left |-> "BOX_HORIZONTAL",
                    mid |-> "BOX_T_UP", right |-> "BOX_HORIZONTAL",
                    end |-> "BOX_BOTTOM_RIGHT" ]
        row(i) == IF left[i] = SEPARATOR
                  THEN [ start |-> "BOX_T_RIGHT", left |-> "BOX_HORIZONTAL",
                         mid |-> "BOX_T_LEFT", right |-> "text",
                         end |-> "BOX_VERTICAL" ]
                  ELSE [ start |-> "BOX_VERTICAL", left |-> "text",
                         mid |-> "BOX_VERTICAL", right |-> "text",
                         end |-> "BOX_VERTICAL" ]
    IN << top >> \o [ i \in 1..Len(left) |-> row(i) ] \o << bottom >>

\* render(width): the rows handed to the terminal, with the layout and the
\* list window they were drawn from, and the rows on which the list pane
\* put the separator marker.
render(width) ==
    LET lay == computeLayout(width)
    IN [ width |-> width,
         layout |-> lay,
         total |-> Len(results),
         selected |-> selectedIndex,
         listed |-> ~loading /\ error = NoError /\ Len(results) > 0,
         window |-> listWindow(selectedIndex, Len(results), lay.listRows),
         rows |-> mergePanels(renderLeftPanel(lay), renderRightPanel(lay), lay),
         marked |-> { i + 1 : i \in { k \in 1..Len(renderLeftPanel(lay)) :
                                         renderLeftPanel(lay)[k] = SEPARATOR } },
         glyphs |-> mergeGlyphs(renderLeftPanel(lay)) ]

\* ------------------------------------------------------- the drawn overlay
\* The k-th path of a listing: files and directories by turns, at the top
\* level and one level down, no path twice; one lies in a directory whose
\* name is wider than a pane.
ViewPath(k) ==
    LET stem == [ i \in 1..k |-> "a" ]
    IN IF k = 4 THEN [ i \in 1..LongName |-> "x" ] \o << "/", "f" >>
       ELSE IF k % 3 = 1 THEN stem
       ELSE IF k % 3 = 2 THEN stem \o << "/" >>
       ELSE << "d", "/" >> \o stem

ViewListing(n) == [ k \in 1..n |-> ViewPath(k) ]

\* The overlay after the initial listing resolved with n paths and the
\* selection was moved to sel: the preview of a directory is its placeholder,
\* the read of a file is in flight.
Loaded(n, sel) ==
    LET res == parseFiles(ViewListing(n))
        isDir == n > 0 /\ res[sel + 1].isDirectory
        isFile == n > 0 /\ ~res[sel + 1].isDirectory
    IN /\ query = ""
       /\ results = res
       /\ selectedIndex = sel
       /\ loading = FALSE
       /\ error = NoError
       /\ debounceTimer = 0
       /\ currentSearch = 1
       /\ previewPath = IF n > 0 THEN res[sel + 1].path ELSE NoPath
       /\ previewLines = IF isDir THEN DirLines ELSE EmptyLines
       /\ previewLoading = isFile
       /\ previewError = Null
       /\ previewScroll = 0
       /\ searches = << [ query |-> "", aborted |-> FALSE, settled |-> TRUE,
                          key |-> 0 ] >>
       /\ reads = IF isFile
                  THEN << [ path |-> res[sel + 1].path, settled |-> FALSE ] >>
                  ELSE << >>
       /\ timers = {}
       /\ closed = FALSE
       /\ doneResult = NoPath
       /\ keyNo = 0
       /\ sinceKey = 0
       /\ appliedSearch = 1
       /\ appliedRead = 0
       /\ renderRequested = TRUE

\* The overlay after the initial listing rejected with msg.
ListFailed(msg) ==
    /\ query = ""
    /\ results = <<>>
    /\ selectedIndex = 0
    /\ loading = FALSE
    /\ error = searchErrorText(msg)
    /\ debounceTimer = 0
    /\ currentSearch = 1
    /\ previewPath = NoPath
    /\ previewLines = EmptyLines
    /\ previewLoading = FALSE
    /\ previewError = Null
    /\ previewScroll = 0
    /\ searches = << [ query |-> "", aborted |-> FALSE, settled |-> TRUE,
                       key |-> 0 ] >>
    /\ reads = <<>>
    /\ timers = {}
    /\ closed = FALSE
    /\ doneResult = NoPath
    /\ keyNo = 0
    /\ sinceKey = 0
    /\ appliedSearch = 1
    /\ appliedRead = 0
    /\ renderRequested = TRUE

\* render(width), called by the TUI with the width it gives the overlay.
Render(width) ==
    /\ ~closed
    /\ frame' = render(width)
    /\ UNCHANGED << pickerVars, ioVars, lastKey, lastInput, critVars >>

\* handleInput: selectUp / selectDown, with the key remembered.
Move(delta) ==
    /\ KeyMove(delta)
    /\ lastKey' = [ delta |-> delta, from |-> selectedIndex ]
    /\ frame' = NoFrame
    /\ UNCHANGED << ioVars, lastInput, critVars >>

InitDrawn ==
    /\ \/ InitOverlay
       \/ \E msg \in SearchErrors : ListFailed(msg)
       \/ \E n \in 0..MaxShown, sel \in 0..MaxShown :
             (sel < n \/ sel = 0) /\ Loaded(n, sel)
    /\ InitPipeline("", AllInstalled)
    /\ InitView
    /\ NotCalled

\* A handler other than a selection key ran: what was drawn is out of date.
Redraw ==
    frame' = NoFrame /\ UNCHANGED << ioVars, lastKey, lastInput, critVars >>

\* The overlay drawn: every result count and selection, the preview settling
\* and scrolling, and render() at each width.
NextView ==
    \/ \E width \in MinWidth..MaxWidth : Render(width)
    \/ \E delta \in { halfPage, 0 - halfPage, 1, -1 } :
          KeyScroll(delta) /\ Redraw
    \/ \E j \in 1..Len(reads), buf \in Buffers :
          PreviewResolve(j, buf) /\ Redraw
    \/ \E j \in 1..Len(reads), err \in ReadErrors :
          PreviewReject(j, err) /\ Redraw

SpecView == InitDrawn /\ [][NextView]_vars

\* The selection moved: every result count and selection, the selection
\* keys and the preview reads they start settling.
NextMove ==
    \/ \E delta \in { -1, 1 } : Move(delta)
    \/ \E j \in 1..Len(reads), buf \in Buffers :
          PreviewResolve(j, buf) /\ Redraw
    \/ \E j \in 1..Len(reads), err \in ReadErrors :
          PreviewReject(j, err) /\ Redraw

SpecMove == InitDrawn /\ [][NextMove]_vars

\* ------------------------------------------------------------ C23 .. C26

\* C23 -- Layout identity: for every overlay width w from the minimum
\* supported width (80) upward, the layout render(w) computes has
\* leftW = floor((w - 2) / 2) and leftW + 1 + rightW = w - 2, both widths
\* non-negative, rightW equal to leftW or leftW - 1; the row geometry does
\* not depend on w: listRows 18, totalRows 25, previewContentRows =
\* totalRows - 2.
C23_LayoutIdentity ==
    frame.width > 0 =>
        LET w == frame.width
            lay == frame.layout
        IN /\ w >= MinWidth
           /\ lay.leftW = (w - 2) \div 2
           /\ lay.leftW + 1 + lay.rightW = w - 2
           /\ lay.leftW >= 0
           /\ lay.rightW >= 0
           /\ lay.rightW \in { lay.leftW, lay.leftW - 1 }
           /\ lay.listRows = 18
           /\ lay.totalRows = 25
           /\ lay.previewContentRows = lay.totalRows - 2

\* The overlay was drawn at an odd width: the inner width is odd, the
\* division rounds down and the two panes are equally wide.
C23_Witness ==
    /\ frame.width = MinWidth + 1
    /\ frame.layout.leftW = frame.layout.rightW
    /\ 2 * frame.layout.leftW + 1 = frame.width - 2

\* The index after k selection keys of one direction, from sel, among n
\* results.
RECURSIVE moveTimes(_, _, _, _)
moveTimes(sel, delta, n, k) ==
    IF k = 0 THEN sel
    ELSE CHOOSE r \in { moveTimes(next, delta, n, k - 1) :
                           next \in { wrapIndex(sel, delta, n) } } : TRUE

\* The last selection key did what the claim says of one move: down from
\* the last index leads to 0, up from 0 to the last index, any other move to
\* the neighbour.
C24_LastMoveWrapped ==
    (lastKey.delta # 0 /\ Len(results) > 0) =>
        LET N == Len(results)
        IN selectedIndex =
               IF lastKey.delta = 1
               THEN (IF lastKey.from = N - 1 THEN 0 ELSE lastKey.from + 1)
               ELSE (IF lastKey.from = 0 THEN N - 1 ELSE lastKey.from - 1)

\* From the present index: up then down, down then up and N moves of one
\* direction lead back to it.
C24_MovesReturn ==
    Len(results) > 0 =>
        LET N == Len(results)
        IN /\ wrapIndex(wrapIndex(selectedIndex, -1, N), 1, N) = selectedIndex
           /\ wrapIndex(wrapIndex(selectedIndex, 1, N), -1, N) = selectedIndex
           /\ moveTimes(selectedIndex, 1, N, N) = selectedIndex
           /\ moveTimes(selectedIndex, -1, N, N) = selectedIndex

\* A selection key on an empty result list changes no field and starts no
\* read.
C24_EmptyMove ==
    (Len(results) = 0 /\ lastKey' # lastKey) =>
        UNCHANGED << overlayVars, previewVars, envVars >>

\* C24 -- Selection wrap: with N > 0 results, moving down from index N-1
\* yields 0 and moving up from index 0 yields N-1, a move up followed by a
\* move down (or the reverse) restores selectedIndex, and N moves in one
\* direction return to the starting index; with N = 0 a move changes no
\* state at all and starts no preview load.
C24_SelectionWraps ==
    [][/\ C24_EmptyMove
       /\ C24_LastMoveWrapped'
       /\ C24_MovesReturn
       /\ C24_MovesReturn']_vars

\* The selection key "up" was handled at index 0 of the longest list: the
\* last entry is selected and loadPreview() ran for it.
C24_Witness ==
    /\ Len(results) = MaxShown
    /\ lastKey = [ delta |-> -1, from |-> 0 ]
    /\ selectedIndex = MaxShown - 1
    /\ previewPath = results[MaxShown].path

\* C25 -- List windowing: for every result count N > 0 and every
\* selectedIndex in [0, N), the window of the drawn list holds exactly
\* min(18, N) consecutive entries, starts at
\* clamp(selectedIndex - floor(window / 2), 0, N - window), stays within
\* [0, N) and contains the selected entry.
C25_WindowAroundSelection ==
    frame.listed =>
        LET N == frame.total
            sel == frame.selected
            start == frame.window.start
            end == frame.window.end
            window == Min(18, N)
            centred == sel - (window \div 2)
        IN /\ N > 0
           /\ sel \in 0..(N - 1)
           /\ end - start = window
           /\ start = (IF centred < 0 THEN 0
                       ELSE IF centred > N - window THEN N - window
                       ELSE centred)
           /\ 0 <= start
           /\ end <= N
           /\ start <= sel
           /\ sel < end

\* The longest list was drawn with its last entry selected: the window
\* cannot be centred and ends with the list.
C25_Witness ==
    /\ frame.listed
    /\ frame.total = MaxShown
    /\ frame.total > frame.layout.listRows
    /\ frame.selected = frame.total - 1
    /\ frame.window = [ start |-> frame.total - frame.layout.listRows,
                        end |-> frame.total ]

\* C26 -- Box alignment: in every overlay state (searching, list error, no
\* matches, loaded, preview loading, preview error) and for every width of
\* 80 or more, each row render(width) returns is exactly width columns
\* wide.
C26_RowsFillWidth ==
    frame.width > 0 =>
        \A i \in 1..Len(frame.rows) : frame.rows[i] = frame.width

\* ------------------------------------------------------------ handleInput
\* The tests of handleInput(), in the order it makes them.  The bindings of
\* selectCancel, selectConfirm, selectUp and selectDown come from the user's
\* keybindings, so one input may match several tests.
KeyTests == << "selectCancel", "selectConfirm", "selectUp", "selectDown",
               "ctrl+d", "ctrl+u", "ctrl+e", "ctrl+y" >>

\* What an input may match: nothing, one test, two tests next to each other
\* in the order above, or all of them.
KeyData ==
    { {} } \cup { { KeyTests[k] } : k \in 1..Len(KeyTests) }
           \cup { { KeyTests[k], KeyTests[k + 1] } : k \in 1..(Len(KeyTests) - 1) }
           \cup { { KeyTests[k] : k \in 1..Len(KeyTests) } }

\* Mutant: selectConfirm is tested before selectCancel.
branchConfirmFirst(m) ==
    IF "selectConfirm" \in m THEN "selectConfirm"
    ELSE IF "selectCancel" \in m THEN "selectCancel"
    ELSE IF "selectUp" \in m THEN "selectUp"
    ELSE IF "selectDown" \in m THEN "selectDown"
    ELSE IF "ctrl+d" \in m THEN "ctrl+d"
    ELSE IF "ctrl+u" \in m THEN "ctrl+u"
    ELSE IF "ctrl+e" \in m THEN "ctrl+e"
    ELSE IF "ctrl+y" \in m THEN "ctrl+y"
    ELSE "input"

\* The branch handleInput() takes for an input matching the tests m.
branch(m) ==
    IF "selectCancel" \in m THEN "selectCancel"
    ELSE IF "selectConfirm" \in m THEN "selectConfirm"
    ELSE IF "selectUp" \in m THEN "selectUp"
    ELSE IF "selectDown" \in m THEN "selectDown"
    ELSE IF "ctrl+d" \in m THEN "ctrl+d"
    ELSE IF "ctrl+u" \in m THEN "ctrl+u"
    ELSE IF "ctrl+e" \in m THEN "ctrl+e"
    ELSE IF "ctrl+y" \in m THEN "ctrl+y"
    ELSE "input"

\* handleInput(data) for an input matching the tests m, which would leave
\* the text newQuery in the Input field if it were forwarded to it.
HandleInput(m, newQuery) ==
    /\ CASE branch(m) = "selectCancel" -> KeyCancel
         [] branch(m) = "selectConfirm" -> KeyConfirm
         [] branch(m) = "selectUp" -> KeyMove(-1)
         [] branch(m) = "selectDown" -> KeyMove(1)
         [] branch(m) = "ctrl+d" -> KeyScroll(halfPage)
         [] branch(m) = "ctrl+u" -> KeyScroll(0 - halfPage)
         [] branch(m) = "ctrl+e" -> KeyScroll(1)
         [] branch(m) = "ctrl+y" -> KeyScroll(-1)
         [] OTHER -> KeyOther(newQuery)
    /\ lastInput' = [ matches |-> m, value |-> newQuery ]
    /\ UNCHANGED << ioVars, frame, lastKey, critVars >>

\* A callback ran: no input is being handled.
NoKeyStep ==
    lastInput' = NoInput /\ UNCHANGED << ioVars, frame, lastKey, critVars >>

\* The overlay with each input followed through the tests of handleInput().
\* An input that matches a test is one that would change the text of the
\* Input field if it got there.
NextKeys ==
    \/ \E m \in KeyData, q \in Queries :
          (m = {} \/ q # query) /\ HandleInput(m, q)
    \/ Tick /\ NoKeyStep
    \/ \E t \in timers : TimerFire(t) /\ NoKeyStep
    \/ \E i \in 1..Len(searches), paths \in Listings :
          SearchResolve(i, paths) /\ NoKeyStep
    \/ \E i \in 1..Len(searches), msg \in SearchErrors :
          SearchReject(i, msg) /\ NoKeyStep
    \/ \E j \in 1..Len(reads), buf \in Buffers :
          PreviewResolve(j, buf) /\ NoKeyStep
    \/ \E j \in 1..Len(reads), err \in ReadErrors :
          PreviewReject(j, err) /\ NoKeyStep

SpecKeys == Init /\ [][NextKeys]_vars

\* ------------------------------------------------------------ C31 .. C40

\* Once done is set the promise is settled, and no handler of the run calls
\* resolve or reject any more, whatever event comes.
C31_LateEventsIgnored ==
    /\ done <=> outcome # "pending"
    /\ done =>
          /\ \A k \in 1..MaxEmit : onLine(LineAt(k)).settle = NoSettle
          /\ onClose.settle = NoSettle
          /\ \A err \in SearchErrors :
                /\ onSourceError(err).settle = NoSettle
                /\ onFdError(err, done).settle = NoSettle

\* C31 -- A search run settles exactly once, by the first of: cap reached,
\* output stream closed, or process error; every later line, close or error
\* event of either stage (the broken pipe caused by killing the filter stage
\* while the listing stage is still writing included) changes neither the
\* run's outcome nor the error of the list pane.
C31_SettlesOnce ==
    [][/\ outcome' # outcome => (outcome = "pending" /\ ~done /\ done')
       /\ done => (outcome' = outcome /\ error' = error /\ done')
       /\ C31_LateEventsIgnored
       /\ C31_LateEventsIgnored']_vars

\* The run for "r" resolved at the cap and killed the pipeline; fzf is gone,
\* the pipe from fd broke, and the list shows the results without an error.
C31_Witness ==
    /\ outcome = "resolved"
    /\ appliedSearch = tracked
    /\ Len(results) = MAX_RESULTS
    /\ fzf.state = "exited"
    /\ fd.pipeError
    /\ emitted > MAX_RESULTS + 1
    /\ error = NoError

C33_FirstMatch(m) ==
    LET ks == { k \in 1..Len(KeyTests) : KeyTests[k] \in m }
    IN IF ks = {} THEN "input"
       ELSE KeyTests[CHOOSE k \in ks : \A j \in ks : k <= j]

\* C33 -- Input dispatch: cancel, confirm, navigation and scroll keys are
\* handled in that precedence and never reach the text-entry field nor
\* change the query; navigation keys change only selectedIndex and the
\* preview state, scroll keys change only previewScroll; any other input is
\* forwarded to the text field, and a search is scheduled if and only if the
\* field's value differs from the stored query afterwards.
C33_InputDispatch ==
    [][lastInput'.value # Null =>
          LET first == C33_FirstMatch(lastInput'.matches)
              value == lastInput'.value
              scheduled == debounceTimer' # debounceTimer
                           \/ timers' \ timers # {}
          IN /\ first # "input" => (query' = query /\ ~scheduled)
             /\ first = "selectCancel" => (closed' /\ doneResult' = NoPath)
             /\ first = "selectConfirm" => (closed' /\ doneResult' = SelectedPath)
             /\ first \in { "selectUp", "selectDown" } =>
                   /\ UNCHANGED << query, results, loading, error, debounceTimer,
                                   currentSearch, searches, timers, closed,
                                   doneResult >>
                   /\ Len(results) > 0 =>
                         selectedIndex' =
                             wrapIndex(selectedIndex,
                                       IF first = "selectUp" THEN -1 ELSE 1,
                                       Len(results))
             /\ first \in { "ctrl+d", "ctrl+u", "ctrl+e", "ctrl+y" } =>
                   UNCHANGED << overlayVars, previewPath, previewLines,
                                previewLoading, previewError, envVars >>
             /\ first = "input" =>
                   /\ query' = value
                   /\ scheduled <=> value # query
                   /\ scheduled =>
                         \E t \in timers' :
                             t.id = debounceTimer' /\ t.left = DEBOUNCE_MS
                   /\ UNCHANGED << results, selectedIndex, loading, error,
                                   currentSearch, previewVars, searches, reads,
                                   closed, doneResult >>]_vars

\* An input bound to both selectCancel and selectConfirm was handled with an
\* entry selected: the picker closed without a path, and the text the Input
\* field would have taken from it is not the query.
C33_Witness ==
    /\ lastInput = [ matches |-> { "selectCancel", "selectConfirm" },
                     value |-> "r" ]
    /\ Len(results) > 0
    /\ closed
    /\ doneResult = NoPath
    /\ query = ""

\* C34 -- Divider row: on the single row where the list pane emits the
\* divider marker, and on no other content row, the merged output is a
\* horizontal separator that spans both panes, with junction glyphs at the
\* outer borders and at the pane boundary.
C34_DividerSpansBothPanes ==
    frame.width > 0 =>
        /\ \E i \in 2..(Len(frame.glyphs) - 1) : frame.marked = { i }
        /\ \A i \in 2..(Len(frame.glyphs) - 1) :
              LET g == frame.glyphs[i]
              IN IF i \in frame.marked
                 THEN /\ g.left = "BOX_HORIZONTAL"
                      /\ g.right = "BOX_HORIZONTAL"
                      /\ g.start = "BOX_T_RIGHT"
                      /\ g.end = "BOX_T_LEFT"
                      /\ g.mid \notin { "BOX_VERTICAL", "text" }
                 ELSE /\ g.left = "text"
                      /\ g.right = "text"
                      /\ g.start = "BOX_VERTICAL"
                      /\ g.mid = "BOX_VERTICAL"
                      /\ g.end = "BOX_VERTICAL"

\* The preview targets the selected entry; there is no target exactly when
\* there are no results.
C35_PreviewTargetsSelection ==
    /\ previewPath = SelectedPath
    /\ previewPath = NoPath <=> Len(results) = 0

\* C35 -- Preview target invariant: after every handled event (selection
\* move, applied search result, preview completion), previewPath is the
\* path of results[selectedIndex], or none exactly when results is empty; a
\* failed search completion keeps it unchanged.
C35_PreviewTarget ==
    /\ C35_PreviewTargetsSelection
    /\ [][/\ C35_PreviewTargetsSelection'
          /\ (\E i \in 1..Len(searches) : SearchSettles(i) /\ error' # NoError)
                => previewPath' = previewPath]_vars

\* The selection was moved from a file to the directory below it while the
\* file was being read: the preview targets the directory.
C35_Witness ==
    /\ selectedIndex = 2
    /\ results = parseFiles(<< A, B, D >>)
    /\ previewPath = D
    /\ Len(reads) = 2
    /\ ~closed

\* Every backend run ends: the promise of runSearch() settles and its
\* callback in search() runs.
BackendEnds ==
    /\ \E i \in 1..Len(searches) :
          \/ \E paths \in Listings : SearchResolve(i, paths)
          \/ \E msg \in SearchErrors : SearchReject(i, msg)
    /\ UNCHANGED << ioVars, viewVars, critVars >>

\* The overlay under the assumption that every backend run eventually ends.
SpecLive == Spec /\ WF_vars(BackendEnds)

\* Before teardown, loading is set exactly while the run issued last has not
\* completed.
C36_LoadingWhileRunning ==
    ~closed => (loading <=> ~searches[currentSearch].settled)

\* C36 -- Loading flag: before teardown, loading is true exactly while the
\* most recently issued search run has not yet completed, and false
\* otherwise; if every backend run eventually ends, then once keystrokes
\* stop the list pane eventually leaves the "Searching..." state.
C36_LoadingFlag ==
    /\ C36_LoadingWhileRunning
    /\ [][C36_LoadingWhileRunning']_vars
    /\ (loading /\ ~closed) ~> (~loading \/ closed)

\* The run for the typed query, issued while the first listing was still in
\* flight, has completed: the list is no longer searching.
C36_Witness ==
    /\ ~closed
    /\ currentSearch = 2
    /\ searches[1].aborted
    /\ searches[2].settled
    /\ ~loading
    /\ keyNo = MaxKeys

\* The list is at rest: not searching, no failure shown, no debounce timer
\* pending.
C37_Quiescent == ~loading /\ error = NoError /\ timers = {}

\* The results in the list were delivered by the run issued for the present
\* query text, which is the run issued last.
C37_ResultsOfQuery ==
    /\ appliedSearch = currentSearch
    /\ searches[appliedSearch].settled
    /\ ~searches[appliedSearch].aborted
    /\ searches[appliedSearch].query = query

C38_DoneResult ==
    [][(lastInput'.value # Null /\ ~closed /\ closed') =>
          LET first == C33_FirstMatch(lastInput'.matches)
          IN /\ first \in { "selectCancel", "selectConfirm" }
             /\ first = "selectCancel" => doneResult' = NoPath
             /\ first = "selectConfirm" =>
                   /\ Len(results) = 0 => doneResult' = NoPath
                   /\ Len(results) > 0 =>
                         /\ doneResult' = results[selectedIndex + 1].path
                         /\ doneResult' # NoPath]_vars

\* Confirm was pressed while the run for the typed query was in flight and
\* the list still held the first listing: the selected path was delivered.
C38_Witness ==
    /\ lastInput.matches = { "selectConfirm" }
    /\ closed
    /\ loading
    /\ query = "r"
    /\ Len(results) > 0
    /\ doneResult = results[selectedIndex + 1].path

\* C39 -- Failed search frame: a search run that was not superseded and
\* fails sets only loading (to false) and error; results, selectedIndex and
\* every preview field keep the values they had from the result set applied
\* last.
C39_FailedSearchFrame ==
    [][\A i \in 1..Len(searches) :
          (SearchSettles(i) /\ ~searches[i].aborted /\ error' # NoError) =>
              /\ loading' = FALSE
              /\ \E msg \in SearchErrors : error' = searchErrorText(msg)
              /\ UNCHANGED << query, results, selectedIndex, debounceTimer,
                              currentSearch, previewVars, reads, timers,
                              closed, doneResult >>]_vars

\* The run for the typed query failed after the first listing had been
\* applied: the list holds the failure and still the three entries, the
\* preview still targets the selected one.
C39_Witness ==
    /\ ~closed
    /\ appliedSearch = 2
    /\ error # NoError
    /\ ~loading
    /\ results = parseFiles(<< A, B, D >>)
    /\ previewPath = SelectedPath

\* ---------------------------------------------------- critique: execute()

\* Most events the sub-agent session emits while it answers.
MaxEvents == 2

\* String.prototype.trim() on a sequence of characters.
RECURSIVE trimStart(_)
trimStart(s) == IF s # << >> /\ Head(s) = " " THEN trimStart(Tail(s)) ELSE s
RECURSIVE trimEnd(_)
trimEnd(s) ==
    IF s # << >> /\ s[Len(s)] = " "
    THEN trimEnd(SubSeq(s, 1, Len(s) - 1))
    ELSE s
trim(s) == trimEnd(trimStart(s))

\* The texts params.content and the answer of the session can be.
Texts == { << >>, << " ", " " >>, << "p" >>, << " ", "p", " " >> }
\* What findCriticModel() resolves with.
CriticResults ==
    { [ model |-> "anthropic/claude-opus-4-6", error |-> Null ],
      [ model |-> Null,
        error |-> "No model with API credentials is available for critique." ] }
\* stopReason of the last assistant message (Null: there is none).
StopReasons == { "stop", "aborted", Null }
\* What session.prompt() can reject with.
PromptErrors ==
    { [ name |-> "AbortError", code |-> Null ],
      [ name |-> "Error", code |-> "ABORT_ERR" ],
      [ name |-> "Error", code |-> Null ] }
\* Session events: their type and the args of a tool call.
SessionEvents ==
    [ type : { "tool_execution_start", "message_update" },
      args : { [ path |-> "a", pattern |-> Null ],
               [ path |-> Null, pattern |-> "x" ],
               [ path |-> "", pattern |-> "x" ],
               [ path |-> Null, pattern |-> Null ] } ]

\* What execute() returns, by the text it carries ("response": the answer
\* of the session, the one result that is no error).
ToolResult(text) == [ isError |-> text # "response", text |-> text ]

\* execute() is called with some content, with or without an AbortSignal,
\* which may have fired already.
Called ==
    /\ \E c \in Texts : params = [ content |-> c ]
    /\ at = "called"
    /\ \E p \in BOOLEAN, a \in BOOLEAN :
          /\ a => p
          /\ signal = [ present |-> p, aborted |-> a, listeners |-> 0 ]
    /\ session = [ created |-> FALSE, subscribers |-> 0, calls |-> << >> ]
    /\ disposed = FALSE
    /\ unsubscribe = Null
    /\ events = 0
    /\ updates = 0
    /\ returned = [ isError |-> FALSE, text |-> Null ]

\* execute() up to its first await: empty content returns at once.
Execute ==
    /\ at = "called"
    /\ IF trim(params.content) = << >>
       THEN /\ at' = "returned"
            /\ returned' = ToolResult("Cannot critique empty content.")
       ELSE at' = "findCriticModel" /\ UNCHANGED returned
    /\ UNCHANGED << params, signal, session, disposed, unsubscribe, events,
                    updates >>

\* findCriticModel() resolved with r: an error is returned, a model is
\* announced through onUpdate() and createAgentSession() is called.
ModelResolves(r) ==
    /\ at = "findCriticModel"
    /\ IF r.error # Null
       THEN /\ at' = "returned"
            /\ returned' = ToolResult(r.error)
            /\ UNCHANGED updates
       ELSE /\ at' = "createAgentSession"
            /\ updates' = updates + 1
            /\ UNCHANGED returned
    /\ UNCHANGED << params, signal, session, disposed, unsubscribe, events >>

\* createAgentSession() rejected.
SessionFails ==
    /\ at = "createAgentSession"
    /\ at' = "returned"
    /\ returned' = ToolResult("Failed to start critic")
    /\ UNCHANGED << params, signal, session, disposed, unsubscribe, events,
                    updates >>

\* Mutant: the finally block leaves the abort listener on the signal.
FinallyKeepsListener(res, sig, ses, unsub) ==
    /\ signal' = sig
    /\ session' =
          [ ses EXCEPT
              !.subscribers = IF unsub # Null THEN 0 ELSE @,
              !.calls = @ \o (IF unsub # Null THEN << "unsubscribe" >>
                                             ELSE << >>) \o << "dispose" >> ]
    /\ disposed' = TRUE
    /\ returned' = res
    /\ at' = "returned"

\* The finally block, then the return of res: the listener is removed, the
\* subscription (if one was made) is ended, the session is disposed.
Finally(res, sig, ses, unsub) ==
    /\ signal' = [ sig EXCEPT !.listeners = 0 ]
    /\ session' =
          [ ses EXCEPT
              !.subscribers = IF unsub # Null THEN 0 ELSE @,
              !.calls = @ \o (IF unsub # Null THEN << "unsubscribe" >>
                                             ELSE << >>) \o << "dispose" >> ]
    /\ disposed' = TRUE
    /\ returned' = res
    /\ at' = "returned"

\* createAgentSession() resolved: the abort listener is added; an aborted
\* signal returns; otherwise the session is subscribed to (subscribe() may
\* throw) and prompted.
SessionCreated(subscribeThrows) ==
    /\ at = "createAgentSession"
    /\ LET ses == [ session EXCEPT !.created = TRUE ]
           sig == [ signal EXCEPT
                      !.listeners = IF signal.present THEN 1 ELSE 0 ]
       IN  IF signal.aborted
           THEN /\ Finally(ToolResult("Critique was cancelled."), sig, ses,
                           Null)
                /\ UNCHANGED unsubscribe
           ELSE IF subscribeThrows
           THEN /\ Finally(ToolResult("Critique failed"), sig,
                           [ ses EXCEPT !.calls = @ \o << "subscribe" >> ],
                           Null)
                /\ UNCHANGED unsubscribe
           ELSE /\ signal' = sig
                /\ session' =
                      [ ses EXCEPT !.subscribers = 1,
                                   !.calls = @ \o << "subscribe", "prompt" >> ]
                /\ unsubscribe' = "function"
                /\ at' = "prompt"
                /\ UNCHANGED << disposed, returned >>
    /\ UNCHANGED << params, events, updates >>

\* The AbortSignal fires: aborted is set and the listener, added with
\* { once: true }, runs and is dropped: abort() calls session.abort() unless
\* disposed.
SignalAborts ==
    /\ at \in { "findCriticModel", "createAgentSession", "prompt", "returned" }
    /\ signal.present /\ ~signal.aborted
    /\ signal' = [ signal EXCEPT !.aborted = TRUE, !.listeners = 0 ]
    /\ session' =
          IF signal.listeners = 1 /\ ~disposed
          THEN [ session EXCEPT !.calls = @ \o << "abort" >> ]
          ELSE session
    /\ UNCHANGED << params, at, disposed, unsubscribe, events, updates,
                    returned >>

\* The session emits an event while it answers: the subscriber reports the
\* start of a tool call that has a path or a pattern.
SessionEvent(type, args) ==
    /\ at = "prompt"
    /\ events < MaxEvents
    /\ events' = events + 1
    /\ LET label == IF args.path # Null THEN args.path
                    ELSE IF args.pattern # Null THEN args.pattern
                    ELSE ""
       IN  updates' =
              IF /\ session.subscribers = 1
                 /\ type = "tool_execution_start"
                 /\ label # ""
              THEN updates + 1
              ELSE updates
    /\ UNCHANGED << params, at, signal, session, disposed, unsubscribe,
                    returned >>

\* session.prompt() resolved.
PromptResolves(response, stopReason) ==
    /\ at = "prompt"
    /\ LET res == IF trim(response) = << >>
                  THEN IF signal.aborted \/ stopReason = "aborted"
                       THEN ToolResult("Critique was cancelled.")
                       ELSE ToolResult("returned an empty response")
                  ELSE ToolResult("response")
       IN  Finally(res, signal, session, unsubscribe)
    /\ UNCHANGED << params, unsubscribe, events, updates >>

\* session.prompt() rejected with err.
PromptRejects(err) ==
    /\ at = "prompt"
    /\ LET res == IF \/ signal.aborted
                     \/ err.name = "AbortError"
                     \/ err.code = "ABORT_ERR"
                  THEN ToolResult("Critique was cancelled.")
                  ELSE ToolResult("Critique failed")
       IN  Finally(res, signal, session, unsubscribe)
    /\ UNCHANGED << params, unsubscribe, events, updates >>

InitCritique == InitOverlay /\ InitPipeline("", AllInstalled) /\ InitView /\ Called

\* One call of the critique tool, from its arguments to its return, with
\* the signal firing at any point.
NextCritique ==
    \/ Execute /\ UNCHANGED << pickerVars, ioVars, viewVars >>
    \/ \E r \in CriticResults :
          ModelResolves(r) /\ UNCHANGED << pickerVars, ioVars, viewVars >>
    \/ SessionFails /\ UNCHANGED << pickerVars, ioVars, viewVars >>
    \/ \E subscribeThrows \in BOOLEAN :
          SessionCreated(subscribeThrows)
          /\ UNCHANGED << pickerVars, ioVars, viewVars >>
    \/ SignalAborts /\ UNCHANGED << pickerVars, ioVars, viewVars >>
    \/ \E e \in SessionEvents :
          SessionEvent(e.type, e.args) /\ UNCHANGED << pickerVars, ioVars, viewVars >>
    \/ \E response \in Texts, stopReason \in StopReasons :
          PromptResolves(response, stopReason)
          /\ UNCHANGED << pickerVars, ioVars, viewVars >>
    \/ \E err \in PromptErrors :
          PromptRejects(err) /\ UNCHANGED << pickerVars, ioVars, viewVars >>

SpecCritique == InitCritique /\ [][NextCritique]_vars

\* ------------------------------------------------------------------- C40

\* How often method m was called on the session.
C40_Calls(m) ==
    Cardinality({ i \in DOMAIN session.calls : session.calls[i] = m })

\* C40 -- Critique sub-agent lifecycle: once execute() has created the
\* sub-agent session, the session is disposed exactly once on every exit
\* path (success, empty response, cancellation, thrown error) and not before
\* the return, the abort listener and the event subscription are removed,
\* and session.abort() is never invoked after disposal; when the content is
\* empty or no model resolves, no session is created.
C40_SessionLifecycle ==
    /\ C40_Calls("dispose") = (IF at = "returned" /\ session.created
                               THEN 1 ELSE 0)
    /\ disposed = (C40_Calls("dispose") = 1)
    /\ (at = "returned" /\ session.created) =>
          /\ signal.listeners = 0
          /\ session.subscribers = 0
          /\ C40_Calls("unsubscribe") = C40_Calls("subscribe")
             \/ unsubscribe = Null
    /\ \A i, j \in DOMAIN session.calls :
          (session.calls[i] = "dispose" /\ session.calls[j] = "abort") => j < i
    /\ C40_Calls("abort") <= 1
    /\ (trim(params.content) = << >> \/ returned.text \in
           { r.error : r \in CriticResults } \ { Null }) =>
          (~session.created /\ session.calls = << >> /\ signal.listeners = 0)
    /\ returned \in { ToolResult("Cannot critique empty content."),
                      ToolResult("Failed to start critic") } =>
          ~session.created

\* The signal fired while the session was answering: session.abort() was
\* called, the prompt ended without text, and the call returned the
\* cancellation with the subscription ended and the session disposed.
C40_Witness ==
    /\ at = "returned"
    /\ returned = ToolResult("Critique was cancelled.")
    /\ signal.aborted
    /\ updates = 2
    /\ session.calls =
          << "subscribe", "prompt", "abort", "unsubscribe", "dispose" >>

====
